---------------------------- MODULE Spec2Model ----------------------------
(***************************************************************************)
(* A model of github.com/beauhoyt/bytesize (bytesize.go): the unit         *)
(* constants, Parse and its helpers, the format options and Bytes.format.  *)
(*                                                                         *)
(* Numbers of the program are wider than TLC's integers (128-bit values,   *)
(* math/big integers), so a natural number is a little-endian sequence of  *)
(* base-2^15 limbs without high zero limbs (zero is the empty sequence),    *)
(* a uint64 is such a number below 2^64, and a Uint128 is a record         *)
(* [Lo, Hi] of two uint64.  A string is a sequence of one-character        *)
(* strings.                                                                *)
(***************************************************************************)
EXTENDS Integers, Sequences, FiniteSets, TLC

(***************************************************************************)
(* math/big.Int arithmetic on limb sequences.  A loop over the limbs is a  *)
(* fold that splits its range in halves, which keeps the evaluation        *)
(* shallow for long numbers.                                               *)
(***************************************************************************)
Base == 2^15

\* bits.Len of an integer below 2^31
BitLenInt(n) == Cardinality({k \in 0..30 : 2^k <= n})

\* the bits of a limb
LimbBits == BitLenInt(Base - 1)

\* the loop named kind over the indices lo..hi, from the state st
RECURSIVE Fold(_, _, _, _, _)

LimbAt(a, i) == IF 1 <= i /\ i <= Len(a) THEN a[i] ELSE 0

\* a without its high zero limbs
Norm(a) ==
  LET nz == {i \in 1..Len(a) : a[i] # 0}
  IN  IF nz = {} THEN <<>>
      ELSE SubSeq(a, 1, CHOOSE i \in nz : \A j \in nz : j <= i)

RECURSIVE FromInt(_)
FromInt(n) == IF n = 0 THEN <<>> ELSE <<n % Base>> \o FromInt(n \div Base)

ShiftLimbs(a, n) == IF a = <<>> THEN <<>> ELSE [i \in 1..n |-> 0] \o a

\* the limbs of a carry loop and its last carry
WithCarry(st) == st.out \o FromInt(st.c)

AddStep(a, b, st, i) ==
  LET s == LimbAt(a, i) + LimbAt(b, i) + st.c
  IN  [out |-> Append(st.out, s % Base), c |-> s \div Base]

\* big.Int.Add
AddN(a, b) ==
  WithCarry(Fold("Add", <<a, b>>, 1, IF Len(a) >= Len(b) THEN Len(a) ELSE Len(b),
                 [out |-> <<>>, c |-> 0]))

SubStep(a, b, st, i) ==
  LET d == a[i] - LimbAt(b, i) - st.c
  IN  [out |-> Append(st.out, d % Base), c |-> IF d < 0 THEN 1 ELSE 0]

\* big.Int.Sub for a >= b
SubN(a, b) ==
  Norm(Fold("Sub", <<a, b>>, 1, Len(a), [out |-> <<>>, c |-> 0]).out)

\* big.Int.Cmp: -1, 0 or 1 as a < b, a = b, a > b
CmpN(a, b) ==
  IF Len(a) < Len(b) THEN -1
  ELSE IF Len(a) > Len(b) THEN 1
  ELSE LET diff == {i \in 1..Len(a) : a[i] # b[i]}
       IN  IF diff = {} THEN 0
           ELSE LET top == CHOOSE i \in diff : \A j \in diff : j <= i
                IN  IF a[top] < b[top] THEN -1 ELSE 1

MulStep(a, k, st, i) ==
  LET p == a[i] * k + st.c
  IN  [out |-> Append(st.out, p % Base), c |-> p \div Base]

\* a * k for a scalar 0 <= k <= Base
MulSmall(a, k) ==
  IF k = 0 THEN <<>>
  ELSE WithCarry(Fold("MulSmall", <<a, k>>, 1, Len(a), [out |-> <<>>, c |-> 0]))

\* one row of a product: the limb i of a times b, i - 1 limbs up
MulRow(a, b, acc, i) == AddN(acc, ShiftLimbs(MulSmall(b, a[i]), i - 1))

\* big.Int.Mul: a * b, one row for every limb of the shorter factor
MulN(a, b) ==
  IF Len(a) <= Len(b) THEN Fold("Mul", <<a, b>>, 1, Len(a), <<>>)
  ELSE Fold("Mul", <<b, a>>, 1, Len(b), <<>>)

\* one step of the short division, from the highest limb down
DivSmallStep(a, k, st, i) ==
  LET cur == st.r * Base + a[Len(a) + 1 - i]
  IN  [q |-> IF st.q = <<>> /\ cur < k THEN <<>> ELSE <<cur \div k>> \o st.q,
       r |-> cur % k]

\* quotient (a number) and remainder (a scalar) of a by a scalar 0 < k < Base
DivSmall(a, k) == Fold("DivSmall", <<a, k>>, 1, Len(a), [q |-> <<>>, r |-> 0])

\* big.Int.BitLen
BitLen(a) ==
  IF a = <<>> THEN 0 ELSE LimbBits * (Len(a) - 1) + BitLenInt(a[Len(a)])

\* a * 2^s for s < LimbBits: every limb takes the high bits of the limb below
ShlBits(a, s) ==
  Norm([i \in 1..(Len(a) + 1) |->
          ((LimbAt(a, i) % 2^(LimbBits - s)) * 2^s)
            + (LimbAt(a, i - 1) \div 2^(LimbBits - s))])

\* a * 2^n (big.Int.Lsh)
Shl(a, n) == ShiftLimbs(ShlBits(a, n % LimbBits), n \div LimbBits)

\* floor(a / 2^n) (big.Int.Rsh): every limb takes the low bits of the limb above
Shr(a, n) ==
  LET k == n \div LimbBits
      s == n % LimbBits
  IN  Norm([i \in 1..(Len(a) - k) |->
              (a[i + k] \div 2^s)
                + ((LimbAt(a, i + k + 1) % 2^s) * 2^(LimbBits - s))])

\* a mod 2^n (big.Int.And with 2^n - 1)
LowBits(a, n) ==
  LET k == n \div LimbBits
  IN  Norm([i \in 1..(IF Len(a) <= k THEN Len(a) ELSE k + 1) |->
              IF i = k + 1 THEN a[i] % 2^(n % LimbBits) ELSE a[i]])

\* the quotient of the two highest limbs of r by the highest limb of d, for
\* r < d * Base and a divisor d whose highest limb has its highest bit set: the
\* digit of r by d is this estimate, or one or two less
EstDigit(r, d) ==
  LET top == (LimbAt(r, Len(d) + 1) * Base + LimbAt(r, Len(d))) \div d[Len(d)]
  IN  IF top < Base THEN top ELSE Base - 1

\* the largest digit not above g whose multiple of d, prod for g, is not above
\* r, and what it leaves of r
RECURSIVE FitDigit(_, _, _, _)
FitDigit(r, d, g, prod) ==
  IF CmpN(prod, r) <= 0 THEN [g |-> g, r |-> SubN(r, prod)]
  ELSE FitDigit(r, d, g - 1, SubN(prod, d))

QuotDigit(r, d) == FitDigit(r, d, EstDigit(r, d), MulSmall(d, EstDigit(r, d)))

PushDigit(q, t) == [q |-> Norm(<<t.g>> \o q), r |-> t.r]

\* one step of the long division, from the highest limb down: the next limb
\* is brought down
DivStep(a, d, st, i) ==
  PushDigit(st.q, QuotDigit(Norm(<<a[Len(a) - Len(d) + 2 - i]>> \o st.r), d))

\* long division of a by d, the highest limb of d having its highest bit set;
\* the highest Len(d) - 1 limbs of a are below d and start the remainder
DivLimbs(a, d) ==
  IF Len(a) < Len(d) THEN [q |-> <<>>, r |-> a]
  ELSE Fold("Div", <<a, d>>, 1, Len(a) - Len(d) + 1,
            [q |-> <<>>, r |-> SubSeq(a, Len(a) - Len(d) + 2, Len(a))])

\* the shift that sets the highest bit of the highest limb of d
NormShift(d) == LimbBits - BitLenInt(d[Len(d)])

ShiftBack(qr, sh) == [q |-> qr.q, r |-> Shr(qr.r, sh)]

\* quotient and remainder of a by d > 0 (big.Int.Div on non-negative
\* operands): both are shifted until the highest bit of d's highest limb is set
DivMod(a, d) ==
  ShiftBack(DivLimbs(Shl(a, NormShift(d)), Shl(d, NormShift(d))), NormShift(d))

Square(a) == MulN(a, a)

\* k^n for a scalar 0 < k < Base, by squaring
RECURSIVE Pow(_, _)
Pow(k, n) ==
  IF n = 0 THEN <<1>>
  ELSE MulSmall(Square(Pow(k, n \div 2)), IF n % 2 = 0 THEN 1 ELSE k)

Digits == <<"0", "1", "2", "3", "4", "5", "6", "7", "8", "9">>

DigitVal(r) == (CHOOSE i \in 1..Len(Digits) : Digits[i] = r) - 1

\* one more decimal digit at the end of a number
DecValueStep(ds, acc, i) == AddN(MulSmall(acc, 10), FromInt(DigitVal(ds[i])))

\* the number written by the decimal digits ds
DecValue(ds) == Fold("DecValue", <<ds>>, 1, Len(ds), <<>>)

PadLeft(ds, n) == [i \in 1..(n - Len(ds)) |-> "0"] \o ds

\* the decimal digits of a number k below Base, none for zero
RECURSIVE SmallDecDigits(_)
SmallDecDigits(k) ==
  IF k = 0 THEN <<>> ELSE Append(SmallDecDigits(k \div 10), Digits[(k % 10) + 1])

\* four more digits in front of out
PushDigits(d, out) == [n |-> d.q, out |-> PadLeft(SmallDecDigits(d.r), 4) \o out]

\* the next four digits of st.n, from the right
DecDigitStep(st) == PushDigits(DivSmall(st.n, 10^4), st.out)

\* ds without the zeros in front of its first other digit
DropZeros(ds) ==
  LET nz == {i \in 1..Len(ds) : ds[i] # "0"}
  IN  IF nz = {} THEN <<>>
      ELSE SubSeq(ds, CHOOSE i \in nz : \A j \in nz : i <= j, Len(ds))

\* the decimal digits of n, none for zero: four digits are taken for every
\* 13 bits of n
DecDigits(n) ==
  DropZeros(Fold("DecDigits", <<>>, 1, (BitLen(n) \div 13) + 1,
                 [n |-> n, out |-> <<>>]).out)

\* the body of the loop named kind at the index i
Step(kind, arg, st, i) ==
  CASE kind = "Add"       -> AddStep(arg[1], arg[2], st, i)
    [] kind = "Sub"       -> SubStep(arg[1], arg[2], st, i)
    [] kind = "MulSmall"  -> MulStep(arg[1], arg[2], st, i)
    [] kind = "Mul"       -> MulRow(arg[1], arg[2], st, i)
    [] kind = "DivSmall"  -> DivSmallStep(arg[1], arg[2], st, i)
    [] kind = "Div"       -> DivStep(arg[1], arg[2], st, i)
    [] kind = "DecValue"  -> DecValueStep(arg[1], st, i)
    [] kind = "DecDigits" -> DecDigitStep(st)

\* Step(... Step(Step(st, lo), lo + 1) ..., hi), the range being halved.  The
\* comparison has the result of the lower half evaluated before the upper half
\* is entered
Fold(kind, arg, lo, hi, st) ==
  LET Upper(left) ==
        IF left = left THEN Fold(kind, arg, ((lo + hi) \div 2) + 1, hi, left)
        ELSE left
  IN  IF lo > hi THEN st
      ELSE IF lo = hi THEN Step(kind, arg, st, lo)
      ELSE Upper(Fold(kind, arg, lo, (lo + hi) \div 2, st))

(***************************************************************************)
(* Uint128 (uint128.go is not among the sources; modelled from the         *)
(* specification: an unsigned 128-bit integer held as two uint64 halves).  *)
(***************************************************************************)
Two64 == Shl(<<1>>, 64)

Two128 == Shl(<<1>>, 128)

\* the integer (Hi << 64) | Lo of a Uint128
ToBig(u) == IF u.Hi = <<>> THEN u.Lo ELSE AddN(Shl(u.Hi, 64), u.Lo)

\* the Uint128 {Lo, Hi} of an integer below 2^128
FromBig(n) == [Lo |-> LowBits(n, 64), Hi |-> Shr(n, 64)]

\* Uint128.Mul64: the product with a uint64, wrapping at 2^128
Mul64(u, k) == FromBig(LowBits(MulN(k, ToBig(u)), 128))

\* a faulty Mul64Error: the product wraps at 2^128 and no error is reported
Mul64ErrorWraps(u, k) == [val |-> Mul64(u, k), err |-> "nil"]

\* the result of Mul64Error from the partial product lo of the low word and
\* the bits mid of the product from bit 64 on: an error when mid has a bit
\* above its 64th, and {low word of lo, mid} otherwise
Mul64ErrorFrom(lo, mid) ==
  IF Shr(mid, 64) # <<>>
  THEN [val |-> [Lo |-> <<>>, Hi |-> <<>>], err |-> "overflow"]
  ELSE [val |-> [Lo |-> LowBits(lo, 64), Hi |-> mid], err |-> "nil"]

\* the partial products lo = u.Lo * k and hi = u.Hi * k put together
Mul64ErrorOf(lo, hi) == Mul64ErrorFrom(lo, AddN(hi, Shr(lo, 64)))

\* Uint128.Mul64Error: the product with a uint64, or an overflow error
Mul64Error(u, k) == Mul64ErrorOf(MulN(u.Lo, k), MulN(u.Hi, k))

\* Uint128.Add: the sum, the carry out of bit 127 dropped
Add(u, v) == FromBig(LowBits(AddN(ToBig(u), ToBig(v)), 128))

\* Uint128.Cmp: -1, 0 or 1
Cmp(u, v) ==
  IF u.Hi = v.Hi THEN CmpN(u.Lo, v.Lo) ELSE CmpN(u.Hi, v.Hi)

(***************************************************************************)
(* The package-level variables of bytesize.go: the units, set when the     *)
(* package is initialised and never assigned again, and their names.       *)
(***************************************************************************)
VARIABLES KB, MB, GB, TB, PB, EB, ZB, YB, RB, QB,
          KiB, MiB, GiB, TiB, PiB, EiB, ZiB, YiB, RiB, QiB

\* the units after KB
unitsAfterKB == <<MB, GB, TB, PB, EB, ZB, YB, RB, QB,
                  KiB, MiB, GiB, TiB, PiB, EiB, ZiB, YiB, RiB, QiB>>

units == <<KB, unitsAfterKB>>

None == [Lo |-> <<>>, Hi |-> <<>>]
One == [Lo |-> <<1>>, Hi |-> <<>>]

B == One

\* the initialisation of the decimal units, each from the one before
InitDecimalUnits ==
  /\ KB = Mul64(B, FromInt(1000))
  /\ MB = Mul64(KB, FromInt(1000))
  /\ GB = Mul64(MB, FromInt(1000))
  /\ TB = Mul64(GB, FromInt(1000))
  /\ PB = Mul64(TB, FromInt(1000))
  /\ EB = Mul64(PB, FromInt(1000))
  /\ ZB = Mul64(EB, FromInt(1000))
  /\ YB = Mul64(ZB, FromInt(1000))
  /\ RB = Mul64(YB, FromInt(1000))
  /\ QB = Mul64(RB, FromInt(1000))

\* a faulty initialisation of the binary units: the words of ZiB are swapped
InitBinaryUnitsZiBInLo ==
  /\ KiB = [Lo |-> FromInt(1024), Hi |-> <<>>]
  /\ MiB = [Lo |-> Pow(1024, 2), Hi |-> <<>>]
  /\ GiB = [Lo |-> Pow(1024, 3), Hi |-> <<>>]
  /\ TiB = [Lo |-> Pow(1024, 4), Hi |-> <<>>]
  /\ PiB = [Lo |-> Pow(1024, 5), Hi |-> <<>>]
  /\ EiB = [Lo |-> Pow(1024, 6), Hi |-> <<>>]
  /\ ZiB = [Lo |-> Shl(<<1>>, 6), Hi |-> <<>>]
  /\ YiB = [Lo |-> <<>>, Hi |-> Shl(<<1>>, 16)]
  /\ RiB = [Lo |-> <<>>, Hi |-> Shl(<<1>>, 26)]
  /\ QiB = [Lo |-> <<>>, Hi |-> Shl(<<1>>, 36)]

\* the initialisation of the binary units
InitBinaryUnits ==
  /\ KiB = [Lo |-> FromInt(1024), Hi |-> <<>>]
  /\ MiB = [Lo |-> Pow(1024, 2), Hi |-> <<>>]
  /\ GiB = [Lo |-> Pow(1024, 3), Hi |-> <<>>]
  /\ TiB = [Lo |-> Pow(1024, 4), Hi |-> <<>>]
  /\ PiB = [Lo |-> Pow(1024, 5), Hi |-> <<>>]
  /\ EiB = [Lo |-> Pow(1024, 6), Hi |-> <<>>]
  /\ ZiB = [Lo |-> <<>>, Hi |-> Shl(<<1>>, 6)]
  /\ YiB = [Lo |-> <<>>, Hi |-> Shl(<<1>>, 16)]
  /\ RiB = [Lo |-> <<>>, Hi |-> Shl(<<1>>, 26)]
  /\ QiB = [Lo |-> <<>>, Hi |-> Shl(<<1>>, 36)]

\* the name tables and the list of the valid unit strings are package-level
\* variables as well
VARIABLES LongDecimal, ShortDecimal, LongBinary, ShortBinary, ValidUnits,
          UnitStringToBytes

tables ==
  <<LongDecimal, ShortDecimal, LongBinary, ShortBinary, ValidUnits,
    UnitStringToBytes>>

\* a map is the sequence of its <<key, name>> entries
InitLongDecimal ==
  LongDecimal =
  << <<KB, <<"K", "i", "l", "o", "b", "y", "t", "e">>>>,
     <<MB, <<"M", "e", "g", "a", "b", "y", "t", "e">>>>,
     <<GB, <<"G", "i", "g", "a", "b", "y", "t", "e">>>>,
     <<TB, <<"T", "e", "r", "a", "b", "y", "t", "e">>>>,
     <<PB, <<"P", "e", "t", "a", "b", "y", "t", "e">>>>,
     <<EB, <<"E", "x", "a", "b", "y", "t", "e">>>>,
     <<ZB, <<"Z", "e", "t", "t", "a", "b", "y", "t", "e">>>>,
     <<YB, <<"Y", "o", "t", "t", "a", "b", "y", "t", "e">>>>,
     <<RB, <<"R", "o", "n", "n", "a", "b", "y", "t", "e">>>>,
     <<QB, <<"Q", "u", "e", "t", "t", "a", "b", "y", "t", "e">>>> >>

\* the short decimal names
InitShortDecimal ==
  ShortDecimal =
  << <<KB, <<"K", "B">>>>,
     <<MB, <<"M", "B">>>>,
     <<GB, <<"G", "B">>>>,
     <<TB, <<"T", "B">>>>,
     <<PB, <<"P", "B">>>>,
     <<EB, <<"E", "B">>>>,
     <<ZB, <<"Z", "B">>>>,
     <<YB, <<"Y", "B">>>>,
     <<RB, <<"R", "B">>>>,
     <<QB, <<"Q", "B">>>> >>

\* the long binary names
InitLongBinary ==
  LongBinary =
  << <<KiB, <<"K", "i", "b", "i", "b", "y", "t", "e">>>>,
     <<MiB, <<"M", "e", "b", "i", "b", "y", "t", "e">>>>,
     <<GiB, <<"G", "i", "b", "i", "b", "y", "t", "e">>>>,
     <<TiB, <<"T", "e", "b", "i", "b", "y", "t", "e">>>>,
     <<PiB, <<"P", "e", "b", "i", "b", "y", "t", "e">>>>,
     <<EiB, <<"E", "x", "b", "i", "b", "y", "t", "e">>>>,
     <<ZiB, <<"Z", "e", "b", "i", "b", "y", "t", "e">>>>,
     <<YiB, <<"Y", "o", "b", "i", "b", "y", "t", "e">>>>,
     <<RiB, <<"R", "o", "n", "n", "i", "b", "y", "t", "e">>>>,
     <<QiB, <<"Q", "u", "e", "t", "t", "i", "b", "y", "t", "e">>>> >>

\* the short binary names
InitShortBinary ==
  ShortBinary =
  << <<KiB, <<"K", "i", "B">>>>,
     <<MiB, <<"M", "i", "B">>>>,
     <<GiB, <<"G", "i", "B">>>>,
     <<TiB, <<"T", "i", "B">>>>,
     <<PiB, <<"P", "i", "B">>>>,
     <<EiB, <<"E", "i", "B">>>>,
     <<ZiB, <<"Z", "i", "B">>>>,
     <<YiB, <<"Y", "i", "B">>>>,
     <<RiB, <<"R", "i", "B">>>>,
     <<QiB, <<"Q", "i", "B">>>> >>

\* m[k] of a Go map: the name and whether the key is present
MapGet(m, k) ==
  LET hits == {i \in 1..Len(m) : m[i][1] = k}
  IN  IF hits = {} THEN [name |-> <<>>, found |-> FALSE]
      ELSE [name |-> m[CHOOSE i \in hits : TRUE][2], found |-> TRUE]

InitValidUnits ==
  ValidUnits =
  << <<"b">>, <<"k", "b">>, <<"m", "b">>,
     <<"g", "b">>, <<"t", "b">>, <<"p", "b">>,
     <<"e", "b">>, <<"z", "b">>, <<"y", "b">>,
     <<"r", "b">>, <<"q", "b">>, <<"k", "i", "b">>,
     <<"m", "i", "b">>, <<"g", "i", "b">>, <<"t", "i", "b">>,
     <<"p", "i", "b">>, <<"e", "i", "b">>, <<"z", "i", "b">>,
     <<"y", "i", "b">>, <<"r", "i", "b">>, <<"q", "i", "b">>,
     <<"b", "y", "t", "e">>, <<"b", "y", "t", "e", "s">>, <<"k", "i", "l", "o", "b", "y", "t", "e">>,
     <<"k", "i", "l", "o", "b", "y", "t", "e", "s">>, <<"m", "e", "g", "a", "b", "y", "t", "e">>, <<"m", "e", "g", "a", "b", "y", "t", "e", "s">>,
     <<"g", "i", "g", "a", "b", "y", "t", "e">>, <<"g", "i", "g", "a", "b", "y", "t", "e", "s">>, <<"t", "e", "r", "a", "b", "y", "t", "e">>,
     <<"t", "e", "r", "a", "b", "y", "t", "e", "s">>, <<"p", "e", "t", "a", "b", "y", "t", "e">>, <<"p", "e", "t", "a", "b", "y", "t", "e", "s">>,
     <<"e", "x", "a", "b", "y", "t", "e">>, <<"e", "x", "a", "b", "y", "t", "e", "s">>, <<"z", "e", "t", "t", "a", "b", "y", "t", "e">>,
     <<"z", "e", "t", "t", "a", "b", "y", "t", "e", "s">>, <<"y", "o", "t", "t", "a", "b", "y", "t", "e">>, <<"y", "o", "t", "t", "a", "b", "y", "t", "e", "s">>,
     <<"r", "o", "n", "n", "a", "b", "y", "t", "e">>, <<"r", "o", "n", "n", "a", "b", "y", "t", "e", "s">>, <<"q", "u", "e", "t", "t", "a", "b", "y", "t", "e">>,
     <<"q", "u", "e", "t", "t", "a", "b", "y", "t", "e", "s">>, <<"k", "i", "b", "i", "b", "y", "t", "e">>, <<"k", "i", "b", "i", "b", "y", "t", "e", "s">>,
     <<"m", "e", "b", "i", "b", "y", "t", "e">>, <<"m", "e", "b", "i", "b", "y", "t", "e", "s">>, <<"g", "i", "b", "i", "b", "y", "t", "e">>,
     <<"g", "i", "b", "i", "b", "y", "t", "e", "s">>, <<"t", "e", "b", "i", "b", "y", "t", "e">>, <<"t", "e", "b", "i", "b", "y", "t", "e", "s">>,
     <<"p", "e", "b", "i", "b", "y", "t", "e">>, <<"p", "e", "b", "i", "b", "y", "t", "e", "s">>, <<"e", "x", "b", "i", "b", "y", "t", "e">>,
     <<"e", "x", "b", "i", "b", "y", "t", "e", "s">>, <<"z", "e", "b", "i", "b", "y", "t", "e">>, <<"z", "e", "b", "i", "b", "y", "t", "e", "s">>,
     <<"y", "o", "b", "i", "b", "y", "t", "e">>, <<"y", "o", "b", "i", "b", "y", "t", "e", "s">>, <<"r", "o", "n", "n", "i", "b", "y", "t", "e">>,
     <<"r", "o", "n", "n", "i", "b", "y", "t", "e", "s">>, <<"q", "u", "e", "t", "t", "i", "b", "y", "t", "e">>, <<"q", "u", "e", "t", "t", "i", "b", "y", "t", "e", "s">> >>

\* the map of the unit strings to their multipliers
InitUnitStringToBytes ==
  UnitStringToBytes =
  << << <<"b">>, B >>,
     << <<"k", "b">>, KB >>,
     << <<"m", "b">>, MB >>,
     << <<"g", "b">>, GB >>,
     << <<"t", "b">>, TB >>,
     << <<"p", "b">>, PB >>,
     << <<"e", "b">>, EB >>,
     << <<"z", "b">>, ZB >>,
     << <<"y", "b">>, YB >>,
     << <<"r", "b">>, RB >>,
     << <<"q", "b">>, QB >>,
     << <<"k", "i", "b">>, KiB >>,
     << <<"m", "i", "b">>, MiB >>,
     << <<"g", "i", "b">>, GiB >>,
     << <<"t", "i", "b">>, TiB >>,
     << <<"p", "i", "b">>, PiB >>,
     << <<"e", "i", "b">>, EiB >>,
     << <<"z", "i", "b">>, ZiB >>,
     << <<"y", "i", "b">>, YiB >>,
     << <<"r", "i", "b">>, RiB >>,
     << <<"q", "i", "b">>, QiB >>,
     << <<"b", "y", "t", "e">>, B >>,
     << <<"b", "y", "t", "e", "s">>, B >>,
     << <<"k", "i", "l", "o", "b", "y", "t", "e">>, KB >>,
     << <<"k", "i", "l", "o", "b", "y", "t", "e", "s">>, KB >>,
     << <<"m", "e", "g", "a", "b", "y", "t", "e">>, MB >>,
     << <<"m", "e", "g", "a", "b", "y", "t", "e", "s">>, MB >>,
     << <<"g", "i", "g", "a", "b", "y", "t", "e">>, GB >>,
     << <<"g", "i", "g", "a", "b", "y", "t", "e", "s">>, GB >>,
     << <<"t", "e", "r", "a", "b", "y", "t", "e">>, TB >>,
     << <<"t", "e", "r", "a", "b", "y", "t", "e", "s">>, TB >>,
     << <<"p", "e", "t", "a", "b", "y", "t", "e">>, PB >>,
     << <<"p", "e", "t", "a", "b", "y", "t", "e", "s">>, PB >>,
     << <<"e", "x", "a", "b", "y", "t", "e">>, EB >>,
     << <<"e", "x", "a", "b", "y", "t", "e", "s">>, EB >>,
     << <<"z", "e", "t", "t", "a", "b", "y", "t", "e">>, ZB >>,
     << <<"z", "e", "t", "t", "a", "b", "y", "t", "e", "s">>, ZB >>,
     << <<"y", "o", "t", "t", "a", "b", "y", "t", "e">>, YB >>,
     << <<"y", "o", "t", "t", "a", "b", "y", "t", "e", "s">>, YB >>,
     << <<"r", "o", "n", "n", "a", "b", "y", "t", "e">>, RB >>,
     << <<"r", "o", "n", "n", "a", "b", "y", "t", "e", "s">>, RB >>,
     << <<"q", "u", "e", "t", "t", "a", "b", "y", "t", "e">>, QB >>,
     << <<"q", "u", "e", "t", "t", "a", "b", "y", "t", "e", "s">>, QB >>,
     << <<"k", "i", "b", "i", "b", "y", "t", "e">>, KiB >>,
     << <<"k", "i", "b", "i", "b", "y", "t", "e", "s">>, KiB >>,
     << <<"m", "e", "b", "i", "b", "y", "t", "e">>, MiB >>,
     << <<"m", "e", "b", "i", "b", "y", "t", "e", "s">>, MiB >>,
     << <<"g", "i", "b", "i", "b", "y", "t", "e">>, GiB >>,
     << <<"g", "i", "b", "i", "b", "y", "t", "e", "s">>, GiB >>,
     << <<"t", "e", "b", "i", "b", "y", "t", "e">>, TiB >>,
     << <<"t", "e", "b", "i", "b", "y", "t", "e", "s">>, TiB >>,
     << <<"p", "e", "b", "i", "b", "y", "t", "e">>, PiB >>,
     << <<"p", "e", "b", "i", "b", "y", "t", "e", "s">>, PiB >>,
     << <<"e", "x", "b", "i", "b", "y", "t", "e">>, EiB >>,
     << <<"e", "x", "b", "i", "b", "y", "t", "e", "s">>, EiB >>,
     << <<"z", "e", "b", "i", "b", "y", "t", "e">>, ZiB >>,
     << <<"z", "e", "b", "i", "b", "y", "t", "e", "s">>, ZiB >>,
     << <<"y", "o", "b", "i", "b", "y", "t", "e">>, YiB >>,
     << <<"y", "o", "b", "i", "b", "y", "t", "e", "s">>, YiB >>,
     << <<"r", "o", "n", "n", "i", "b", "y", "t", "e">>, RiB >>,
     << <<"r", "o", "n", "n", "i", "b", "y", "t", "e", "s">>, RiB >>,
     << <<"q", "u", "e", "t", "t", "i", "b", "y", "t", "e">>, QiB >>,
     << <<"q", "u", "e", "t", "t", "i", "b", "y", "t", "e", "s">>, QiB >> >>

\* the initialisation of the tables, after the units they hold
InitTables ==
  /\ InitLongDecimal /\ InitShortDecimal /\ InitLongBinary /\ InitShortBinary
  /\ InitValidUnits /\ InitUnitStringToBytes

\* the unit registry: the unit variables and the tables
registry == <<units, tables>>

(***************************************************************************)
(* Strings: unicode.IsSpace, strings.TrimSpace, strings.ToLower.           *)
(***************************************************************************)
IsSpace(r) == r \in {" ", "\t", "\n", "\r", "\f"}

IsDigit(r) == r \in {"0", "1", "2", "3", "4", "5", "6", "7", "8", "9"}

Upper == <<"A", "B", "C", "D", "E", "F", "G", "H", "I", "J", "K", "L", "M",
           "N", "O", "P", "Q", "R", "S", "T", "U", "V", "W", "X", "Y", "Z">>

Lower == <<"a", "b", "c", "d", "e", "f", "g", "h", "i", "j", "k", "l", "m",
           "n", "o", "p", "q", "r", "s", "t", "u", "v", "w", "x", "y", "z">>

IsUpper(r) == \E i \in 1..Len(Upper) : Upper[i] = r

IsLower(r) == \E i \in 1..Len(Lower) : Lower[i] = r

ToLowerRune(r) ==
  IF IsUpper(r) THEN Lower[CHOOSE i \in 1..Len(Upper) : Upper[i] = r] ELSE r

ToUpperRune(r) ==
  IF IsLower(r) THEN Upper[CHOOSE i \in 1..Len(Lower) : Lower[i] = r] ELSE r

ToLower(s) == [i \in 1..Len(s) |-> ToLowerRune(s[i])]

TrimSpace(s) ==
  LET keep == {i \in 1..Len(s) : ~IsSpace(s[i])}
  IN  IF keep = {} THEN <<>>
      ELSE SubSeq(s, CHOOSE i \in keep : \A j \in keep : i <= j,
                     CHOOSE i \in keep : \A j \in keep : i >= j)

Contains(list, s) == \E i \in 1..Len(list) : list[i] = s

\* a faulty IsValidUnit: the case of the letters is kept
IsValidUnitKeepsCase(unit) == Contains(ValidUnits, TrimSpace(unit))

\* IsValidUnit
IsValidUnit(unit) == Contains(ValidUnits, ToLower(TrimSpace(unit)))

(***************************************************************************)
(* Parse and its helpers.                                                  *)
(***************************************************************************)
Ok(v) == [val |-> v, err |-> "nil"]

Fail(e) == [val |-> None, err |-> e]

\* a faulty IsNumberRune: '-' is no character of the numeral
IsNumberRuneWithoutMinus(r) == IsDigit(r) \/ r = "."

\* getNumAndUnitRunes.  The loop drops the spaces, appends '-', digits and
\* '.' to numRunes and every other rune to unitRunes, and returns the error
\* at the second '.'
IsNumberRune(r) == r = "-" \/ IsDigit(r) \/ r = "."

IsOtherRune(r) == ~IsSpace(r) /\ ~IsNumberRune(r)

IsPoint(r) == r = "."

\* a faulty getNumAndUnitRunes: a second '.' is appended like the first
getNumAndUnitRunesUnchecked(s) ==
  [numRunes |-> SelectSeq(s, IsNumberRune),
   unitRunes |-> SelectSeq(s, IsOtherRune), err |-> "nil"]

getNumAndUnitRunes(s) ==
  IF Len(SelectSeq(s, IsPoint)) > 1
  THEN [numRunes |-> <<>>, unitRunes |-> <<>>,
        err |-> "invalid number: multiple decimal points"]
  ELSE [numRunes |-> SelectSeq(s, IsNumberRune),
        unitRunes |-> SelectSeq(s, IsOtherRune), err |-> "nil"]

\* a faulty NormalizeUnit: the case of the letters is kept
NormalizeUnitKeepsCase(unitStr) == TrimSpace(unitStr)

\* a faulty NormalizeUnit: the whitespace around the text is kept
NormalizeUnitKeepsSpace(unitStr) == ToLower(unitStr)

\* the unit string as the switch sees it
NormalizeUnit(unitStr) == ToLower(TrimSpace(unitStr))

\* the switch of getMultiplierForUnitString on the lower-case unit string
UnitSwitch(unitStr) ==
  CASE unitStr = <<"b">> -> Ok(B)
    [] unitStr = <<"k", "b">> -> Ok(KB)
    [] unitStr = <<"m", "b">> -> Ok(MB)
    [] unitStr = <<"g", "b">> -> Ok(GB)
    [] unitStr = <<"t", "b">> -> Ok(TB)
    [] unitStr = <<"p", "b">> -> Ok(PB)
    [] unitStr = <<"e", "b">> -> Ok(EB)
    [] unitStr = <<"z", "b">> -> Ok(ZB)
    [] unitStr = <<"y", "b">> -> Ok(YB)
    [] unitStr = <<"r", "b">> -> Ok(RB)
    [] unitStr = <<"q", "b">> -> Ok(QB)
    [] unitStr = <<"k", "i", "b">> -> Ok(KiB)
    [] unitStr = <<"m", "i", "b">> -> Ok(MiB)
    [] unitStr = <<"g", "i", "b">> -> Ok(GiB)
    [] unitStr = <<"t", "i", "b">> -> Ok(TiB)
    [] unitStr = <<"p", "i", "b">> -> Ok(PiB)
    [] unitStr = <<"e", "i", "b">> -> Ok(EiB)
    [] unitStr = <<"z", "i", "b">> -> Ok(ZiB)
    [] unitStr = <<"y", "i", "b">> -> Ok(YiB)
    [] unitStr = <<"r", "i", "b">> -> Ok(RiB)
    [] unitStr = <<"q", "i", "b">> -> Ok(QiB)
    [] unitStr \in {<<"b", "y", "t", "e">>, <<"b", "y", "t", "e", "s">>} -> Ok(B)
    [] unitStr \in {<<"k", "i", "l", "o", "b", "y", "t", "e">>, <<"k", "i", "l", "o", "b", "y", "t", "e", "s">>} -> Ok(KB)
    [] unitStr \in {<<"m", "e", "g", "a", "b", "y", "t", "e">>, <<"m", "e", "g", "a", "b", "y", "t", "e", "s">>} -> Ok(MB)
    [] unitStr \in {<<"g", "i", "g", "a", "b", "y", "t", "e">>, <<"g", "i", "g", "a", "b", "y", "t", "e", "s">>} -> Ok(GB)
    [] unitStr \in {<<"t", "e", "r", "a", "b", "y", "t", "e">>, <<"t", "e", "r", "a", "b", "y", "t", "e", "s">>} -> Ok(TB)
    [] unitStr \in {<<"p", "e", "t", "a", "b", "y", "t", "e">>, <<"p", "e", "t", "a", "b", "y", "t", "e", "s">>} -> Ok(PB)
    [] unitStr \in {<<"e", "x", "a", "b", "y", "t", "e">>, <<"e", "x", "a", "b", "y", "t", "e", "s">>} -> Ok(EB)
    [] unitStr \in {<<"z", "e", "t", "t", "a", "b", "y", "t", "e">>, <<"z", "e", "t", "t", "a", "b", "y", "t", "e", "s">>} -> Ok(ZB)
    [] unitStr \in {<<"y", "o", "t", "t", "a", "b", "y", "t", "e">>, <<"y", "o", "t", "t", "a", "b", "y", "t", "e", "s">>} -> Ok(YB)
    [] unitStr \in {<<"r", "o", "n", "n", "a", "b", "y", "t", "e">>, <<"r", "o", "n", "n", "a", "b", "y", "t", "e", "s">>} -> Ok(RB)
    [] unitStr \in {<<"q", "u", "e", "t", "t", "a", "b", "y", "t", "e">>, <<"q", "u", "e", "t", "t", "a", "b", "y", "t", "e", "s">>} -> Ok(QB)
    [] unitStr \in {<<"k", "i", "b", "i", "b", "y", "t", "e">>, <<"k", "i", "b", "i", "b", "y", "t", "e", "s">>} -> Ok(KiB)
    [] unitStr \in {<<"m", "e", "b", "i", "b", "y", "t", "e">>, <<"m", "e", "b", "i", "b", "y", "t", "e", "s">>} -> Ok(MiB)
    [] unitStr \in {<<"g", "i", "b", "i", "b", "y", "t", "e">>, <<"g", "i", "b", "i", "b", "y", "t", "e", "s">>} -> Ok(GiB)
    [] unitStr \in {<<"t", "e", "b", "i", "b", "y", "t", "e">>, <<"t", "e", "b", "i", "b", "y", "t", "e", "s">>} -> Ok(TiB)
    [] unitStr \in {<<"p", "e", "b", "i", "b", "y", "t", "e">>, <<"p", "e", "b", "i", "b", "y", "t", "e", "s">>} -> Ok(PiB)
    [] unitStr \in {<<"e", "x", "b", "i", "b", "y", "t", "e">>, <<"e", "x", "b", "i", "b", "y", "t", "e", "s">>} -> Ok(EiB)
    [] unitStr \in {<<"z", "e", "b", "i", "b", "y", "t", "e">>, <<"z", "e", "b", "i", "b", "y", "t", "e", "s">>} -> Ok(ZiB)
    [] unitStr \in {<<"y", "o", "b", "i", "b", "y", "t", "e">>, <<"y", "o", "b", "i", "b", "y", "t", "e", "s">>} -> Ok(YiB)
    [] unitStr \in {<<"r", "o", "n", "n", "i", "b", "y", "t", "e">>, <<"r", "o", "n", "n", "i", "b", "y", "t", "e", "s">>} -> Ok(RiB)
    [] unitStr \in {<<"q", "u", "e", "t", "t", "i", "b", "y", "t", "e">>, <<"q", "u", "e", "t", "t", "i", "b", "y", "t", "e", "s">>} -> Ok(QiB)
    [] OTHER -> Fail("unknown unit")

getMultiplierForUnitString(unitStr) == UnitSwitch(NormalizeUnit(unitStr))

\* multiplier, found := UnitStringToBytes[unitStr], and the result
FoundMultiplier(got) ==
  IF ~got.found THEN Fail("unknown unit") ELSE Ok(got.name)

getMultiplierByUnitStringMapVersion(unitStr) ==
  FoundMultiplier(MapGet(UnitStringToBytes, NormalizeUnit(unitStr)))

\* unitStr[i]: the byte at the index i, from 0; an index of Len(unitStr) or
\* more is a run-time panic
OutOfRange == "index out of range"

ByteAt(unitStr, i) == IF i < Len(unitStr) THEN unitStr[i + 1] ELSE OutOfRange

\* the call does not return
Panic == [val |-> None, err |-> "panic: index out of range"]

\* the nested switches on unitStr[0], unitStr[1], ... of
\* getMultiplierByUnitStringNestedSwitchesVersion
NestedSwitches(unitStr) ==
  CASE ByteAt(unitStr, 0) = OutOfRange -> Panic
    [] ByteAt(unitStr, 0) = "b" -> Ok(B)
    [] ByteAt(unitStr, 0) = "k" ->
           (CASE ByteAt(unitStr, 1) = OutOfRange -> Panic
              [] ByteAt(unitStr, 1) = "b" -> Ok(KB)
              [] ByteAt(unitStr, 1) = "i" ->
                     (CASE ByteAt(unitStr, 2) = OutOfRange -> Panic
                        [] ByteAt(unitStr, 2) = "b" -> Ok(KiB)
                        [] ByteAt(unitStr, 2) = "l" -> Ok(KB)
                        [] OTHER -> Fail("unknown unit"))
              [] OTHER -> Fail("unknown unit"))
    [] ByteAt(unitStr, 0) = "m" ->
           (CASE ByteAt(unitStr, 1) = OutOfRange -> Panic
              [] ByteAt(unitStr, 1) = "b" -> Ok(MB)
              [] ByteAt(unitStr, 1) = "i" -> Ok(MiB)
              [] ByteAt(unitStr, 1) = "e" ->
                     (CASE ByteAt(unitStr, 2) = OutOfRange -> Panic
                        [] ByteAt(unitStr, 2) = "b" -> Ok(MiB)
                        [] ByteAt(unitStr, 2) = "g" -> Ok(MB)
                        [] OTHER -> Fail("unknown unit"))
              [] OTHER -> Fail("unknown unit"))
    [] ByteAt(unitStr, 0) = "g" ->
           (CASE ByteAt(unitStr, 1) = OutOfRange -> Panic
              [] ByteAt(unitStr, 1) = "b" -> Ok(GB)
              [] ByteAt(unitStr, 1) = "i" ->
                     (CASE ByteAt(unitStr, 2) = OutOfRange -> Panic
                        [] ByteAt(unitStr, 2) = "b" -> Ok(GiB)
                        [] ByteAt(unitStr, 2) = "g" -> Ok(GB)
                        [] OTHER -> Fail("unknown unit"))
              [] OTHER -> Fail("unknown unit"))
    [] ByteAt(unitStr, 0) = "t" ->
           (CASE ByteAt(unitStr, 1) = OutOfRange -> Panic
              [] ByteAt(unitStr, 1) = "b" -> Ok(TB)
              [] ByteAt(unitStr, 1) = "i" -> Ok(TiB)
              [] ByteAt(unitStr, 1) = "e" ->
                     (CASE ByteAt(unitStr, 2) = OutOfRange -> Panic
                        [] ByteAt(unitStr, 2) = "b" -> Ok(TiB)
                        [] ByteAt(unitStr, 2) = "r" -> Ok(TB)
                        [] OTHER -> Fail("unknown unit"))
              [] OTHER -> Fail("unknown unit"))
    [] ByteAt(unitStr, 0) = "p" ->
           (CASE ByteAt(unitStr, 1) = OutOfRange -> Panic
              [] ByteAt(unitStr, 1) = "b" -> Ok(PB)
              [] ByteAt(unitStr, 1) = "i" -> Ok(PiB)
              [] ByteAt(unitStr, 1) = "e" ->
                     (CASE ByteAt(unitStr, 2) = OutOfRange -> Panic
                        [] ByteAt(unitStr, 2) = "b" -> Ok(PiB)
                        [] ByteAt(unitStr, 2) = "t" -> Ok(PB)
                        [] OTHER -> Fail("unknown unit"))
              [] OTHER -> Fail("unknown unit"))
    [] ByteAt(unitStr, 0) = "e" ->
           (CASE ByteAt(unitStr, 1) = OutOfRange -> Panic
              [] ByteAt(unitStr, 1) = "b" -> Ok(EB)
              [] ByteAt(unitStr, 1) = "i" -> Ok(EiB)
              [] ByteAt(unitStr, 1) = "x" ->
                     (CASE ByteAt(unitStr, 2) = OutOfRange -> Panic
                        [] ByteAt(unitStr, 2) = "b" -> Ok(EiB)
                        [] ByteAt(unitStr, 2) = "a" -> Ok(EB)
                        [] OTHER -> Fail("unknown unit"))
              [] OTHER -> Fail("unknown unit"))
    [] ByteAt(unitStr, 0) = "z" ->
           (CASE ByteAt(unitStr, 1) = OutOfRange -> Panic
              [] ByteAt(unitStr, 1) = "b" -> Ok(ZB)
              [] ByteAt(unitStr, 1) = "i" -> Ok(ZiB)
              [] ByteAt(unitStr, 1) = "e" ->
                     (CASE ByteAt(unitStr, 2) = OutOfRange -> Panic
                        [] ByteAt(unitStr, 2) = "b" -> Ok(ZiB)
                        [] ByteAt(unitStr, 2) = "t" -> Ok(ZB)
                        [] OTHER -> Fail("unknown unit"))
              [] OTHER -> Fail("unknown unit"))
    [] ByteAt(unitStr, 0) = "y" ->
           (CASE ByteAt(unitStr, 1) = OutOfRange -> Panic
              [] ByteAt(unitStr, 1) = "b" -> Ok(YB)
              [] ByteAt(unitStr, 1) = "i" -> Ok(YiB)
              [] ByteAt(unitStr, 1) = "o" ->
                     (CASE ByteAt(unitStr, 2) = OutOfRange -> Panic
                        [] ByteAt(unitStr, 2) = "b" -> Ok(YiB)
                        [] ByteAt(unitStr, 2) = "t" -> Ok(YB)
                        [] OTHER -> Fail("unknown unit"))
              [] OTHER -> Fail("unknown unit"))
    [] ByteAt(unitStr, 0) = "r" ->
           (CASE ByteAt(unitStr, 1) = OutOfRange -> Panic
              [] ByteAt(unitStr, 1) = "b" -> Ok(RB)
              [] ByteAt(unitStr, 1) = "i" -> Ok(RiB)
              [] ByteAt(unitStr, 1) = "o" ->
                     (CASE ByteAt(unitStr, 2) = OutOfRange -> Panic
                        [] ByteAt(unitStr, 2) = "n" ->
                               (CASE ByteAt(unitStr, 3) = OutOfRange -> Panic
                                  [] ByteAt(unitStr, 3) = "n" ->
                                         (CASE ByteAt(unitStr, 4) = OutOfRange -> Panic
                                            [] ByteAt(unitStr, 4) = "i" -> Ok(RiB)
                                            [] ByteAt(unitStr, 4) = "a" -> Ok(RB)
                                            [] OTHER -> Fail("unknown unit"))
                                  [] OTHER -> Fail("unknown unit"))
                        [] OTHER -> Fail("unknown unit"))
              [] OTHER -> Fail("unknown unit"))
    [] ByteAt(unitStr, 0) = "q" ->
           (CASE ByteAt(unitStr, 1) = OutOfRange -> Panic
              [] ByteAt(unitStr, 1) = "b" -> Ok(QB)
              [] ByteAt(unitStr, 1) = "i" -> Ok(QiB)
              [] ByteAt(unitStr, 1) = "u" ->
                     (CASE ByteAt(unitStr, 2) = OutOfRange -> Panic
                        [] ByteAt(unitStr, 2) = "e" ->
                               (CASE ByteAt(unitStr, 3) = OutOfRange -> Panic
                                  [] ByteAt(unitStr, 3) = "t" ->
                                         (CASE ByteAt(unitStr, 4) = OutOfRange -> Panic
                                            [] ByteAt(unitStr, 4) = "t" ->
                                                   (CASE ByteAt(unitStr, 5) = OutOfRange -> Panic
                                                      [] ByteAt(unitStr, 5) = "i" -> Ok(QiB)
                                                      [] ByteAt(unitStr, 5) = "a" -> Ok(QB)
                                                      [] OTHER -> Fail("unknown unit"))
                                            [] OTHER -> Fail("unknown unit"))
                                  [] OTHER -> Fail("unknown unit"))
                        [] OTHER -> Fail("unknown unit"))
              [] OTHER -> Fail("unknown unit"))
    [] OTHER -> Fail("unknown unit")

getMultiplierByUnitStringNestedSwitchesVersion(unitStr) ==
  NestedSwitches(NormalizeUnit(unitStr))

(***************************************************************************)
(* math/big.Rat: a non-negative fraction [num, den] in lowest terms with   *)
(* a sign flag.                                                            *)
(***************************************************************************)
\* big.Rat.SetString on a string of digits, points and minus signs: an
\* optional sign, then digits with at most one point and at least one digit.
\* The fraction is num / den; big.Rat keeps it in lowest terms, which the
\* sign and the floor of num / den do not depend on
Fraction(signed, mant, fracLen) ==
  [ok |-> TRUE, neg |-> signed /\ mant # <<>>, num |-> mant,
   den |-> Pow(10, fracLen)]

SetString(numStr) ==
  LET signed  == numStr # <<>> /\ numStr[1] = "-"
      body    == IF signed THEN Tail(numStr) ELSE numStr
      points  == {i \in 1..Len(body) : body[i] = "."}
      fracLen == IF points = {} THEN 0
                 ELSE Len(body) - (CHOOSE i \in points : TRUE)
      ok      == /\ \A i \in 1..Len(body) : IsDigit(body[i]) \/ body[i] = "."
                 /\ Cardinality(points) <= 1
                 /\ \E i \in 1..Len(body) : IsDigit(body[i])
  IN  IF ok THEN Fraction(signed, DecValue(SelectSeq(body, IsDigit)), fracLen)
      ELSE [ok |-> FALSE, neg |-> FALSE, num |-> <<>>, den |-> <<1>>]

\* a faulty Sign: the sign flag is ignored
SignOfMagnitude(x) == IF x.num = <<>> THEN 0 ELSE 1

\* big.Rat.Sign
Sign(x) == IF x.num = <<>> THEN 0 ELSE IF x.neg THEN -1 ELSE 1

\* big.Rat.Mul of a fraction with an integer
RatMulInt(x, m) == [x EXCEPT !.num = MulN(m, x.num)]

RoundedUp(d) == IF d.r = <<>> THEN d.q ELSE AddN(d.q, <<1>>)

\* a faulty RatFloor: a fraction is rounded up
RatCeil(x) == RoundedUp(DivMod(x.num, x.den))

\* big.Int.Div of the numerator by the denominator
RatFloor(x) == DivMod(x.num, x.den).q

\* a faulty ToUint128: the halves are swapped
ToUint128Swapped(resultInt) ==
  [Lo |-> Shr(resultInt, 64), Hi |-> LowBits(resultInt, 64)]

\* the conversion of a result below 2^128 to {lo, hi}
ToUint128(resultInt) ==
  [Lo |-> LowBits(resultInt, 64), Hi |-> Shr(resultInt, 64)]

\* a faulty Overflows: a result of exactly 128 bits is rejected
OverflowsFrom128Bits(resultInt) == BitLen(resultInt) >= 128

\* resultInt.BitLen() > 128
Overflows(resultInt) == BitLen(resultInt) > 128

\* a faulty ParseResult: the overflow error comes with the low 128 bits
ParseResultKeepsLowBits(resultInt) ==
  IF Overflows(resultInt)
  THEN [val |-> ToUint128(LowBits(resultInt, 128)),
        err |-> "value overflows Uint128"]
  ELSE Ok(ToUint128(resultInt))

\* Parse from the overflow test on
ParseResult(resultInt) ==
  IF Overflows(resultInt) THEN Fail("value overflows Uint128")
  ELSE Ok(ToUint128(resultInt))

\* Parse from the parsed numeral on
ParseRat(numRat, multiplier) ==
  IF ~numRat.ok THEN Fail("invalid number")
  ELSE IF Sign(numRat) < 0 THEN Fail("negative value")
  ELSE ParseResult(RatFloor(RatMulInt(numRat, ToBig(multiplier))))

\* Parse from the resolved unit on
ParseNumStr(numStr, multiplier) ==
  IF multiplier.err # "nil" THEN Fail(multiplier.err)
  ELSE IF numStr = <<>> THEN Fail("invalid number: empty numeric part")
  ELSE ParseRat(SetString(numStr), multiplier.val)

\* Parse from the split input on
ParseRunes(runes) ==
  IF runes.err # "nil"
  THEN Fail("error parsing number and unit: invalid number: multiple decimal points")
  ELSE ParseNumStr(runes.numRunes, getMultiplierForUnitString(runes.unitRunes))

\* Parse from the trimmed input on
ParseTrimmed(s) ==
  IF s = <<>> THEN Fail("empty string") ELSE ParseRunes(getNumAndUnitRunes(s))

Parse(s) == ParseTrimmed(TrimSpace(s))

(***************************************************************************)
(* math/big.Float: a non-negative value mant * 2^exp.  The Floats of       *)
(* format come from big.NewFloat(0), whose precision is 53 bits and whose  *)
(* rounding mode is to nearest, ties to even.                              *)
(***************************************************************************)
FloatPrec == 53

IsOdd(n) == n # <<>> /\ n[1] % 2 = 1

\* t, or t + 1 when the discarded part rounds up: it is above a half
\* (c > 0), or it is a half (c = 0) and sticky or t is odd
RoundHalfEven(t, c, sticky) ==
  IF c > 0 \/ (c = 0 /\ (sticky \/ IsOdd(t))) THEN AddN(t, <<1>>) ELSE t

\* (n + a discarded non-zero tail if sticky) * 2^exp rounded to FloatPrec bits
RoundToPrec(n, sticky, exp) ==
  LET shift == BitLen(n) - FloatPrec
  IN  IF shift <= 0 THEN [mant |-> n, exp |-> exp]
      ELSE [mant |-> RoundHalfEven(Shr(n, shift),
                                   CmpN(LowBits(n, shift), Shl(<<1>>, shift - 1)),
                                   sticky),
            exp |-> exp + shift]

\* big.NewFloat(0).SetInt(n)
SetInt(n) == RoundToPrec(n, FALSE, 0)

RoundQuotient(d, exp) == RoundToPrec(d.q, d.r # <<>>, exp)

\* big.NewFloat(0).Quo(x, y) for y > 0: the quotient of the two Floats,
\* rounded once
Quo(x, y) ==
  LET s == FloatPrec + 2 + BitLen(y.mant) - BitLen(x.mant)
  IN  IF x.mant = <<>> THEN [mant |-> <<>>, exp |-> 0]
      ELSE RoundQuotient(DivMod(Shl(x.mant, s), y.mant), x.exp - y.exp - s)

\* value.Cmp(big.NewFloat(1)) = 0
IsOneFloat(v) ==
  IF v.exp >= 0 THEN Shl(v.mant, v.exp) = <<1>>
  ELSE v.mant = Shl(<<1>>, 0 - v.exp)

\* ds with a point k digits from the right
InsertPoint(ds, k) ==
  SubSeq(ds, 1, Len(ds) - k) \o <<".">> \o SubSeq(ds, Len(ds) - k + 1, Len(ds))

\* num * 2^exp rounded to an integer, ties to even
RoundToInt(num, exp) ==
  IF exp >= 0 THEN Shl(num, exp)
  ELSE RoundHalfEven(Shr(num, 0 - exp),
                     CmpN(LowBits(num, 0 - exp), Shl(<<1>>, 0 - exp - 1)), FALSE)

\* the verb %.<prec>f on a Float: the exact decimal expansion rounded to prec
\* decimals, ties to even
FormatFixed(v, prec) ==
  IF prec = 0 THEN PadLeft(DecDigits(RoundToInt(v.mant, v.exp)), 1)
  ELSE InsertPoint(PadLeft(DecDigits(RoundToInt(MulN(Pow(10, prec), v.mant),
                                                v.exp)), prec + 1), prec)

RuneAt(s, i) == IF i <= Len(s) THEN s[i] ELSE ""

\* fmt.Sprintf(f, value, unitName) from position i of f with argument k next,
\* for the verbs %.<digit>f and %s and literal text
RECURSIVE SprintfFrom(_, _, _, _, _)
SprintfFrom(f, i, k, value, unitName) ==
  IF i > Len(f) THEN <<>>
  ELSE IF f[i] # "%"
  THEN <<f[i]>> \o SprintfFrom(f, i + 1, k, value, unitName)
  ELSE IF RuneAt(f, i + 1) = "s" /\ k = 2
  THEN unitName \o SprintfFrom(f, i + 2, k + 1, value, unitName)
  ELSE IF /\ RuneAt(f, i + 1) = "." /\ IsDigit(RuneAt(f, i + 2))
          /\ RuneAt(f, i + 3) = "f" /\ k = 1
  THEN FormatFixed(value, DigitVal(f[i + 2]))
         \o SprintfFrom(f, i + 4, k + 1, value, unitName)
  ELSE <<"%!">> \o SprintfFrom(f, i + 1, k, value, unitName)

Sprintf(f, value, unitName) == SprintfFrom(f, 1, 1, value, unitName)

(***************************************************************************)
(* The format options and Bytes.format.                                    *)
(***************************************************************************)
DefaultFormatStr == <<"%", ".", "2", "f", " ", "%", "s">>

DefaultLongUnits == FALSE

DefaultDecimalUnits == TRUE

\* forcedUnitType is a pointer: <<>> is nil, <<u>> points to u
newFormatOptions ==
  [formatStr |-> DefaultFormatStr, forcedUnitType |-> <<>>,
   longUnits |-> DefaultLongUnits, decimalUnits |-> DefaultDecimalUnits]

\* a FormatOption is the constructor's name and its argument
Option(name, formatStr, unit, flag) ==
  [name |-> name, formatStr |-> formatStr, unit |-> unit, flag |-> flag]

WithFormatString(formatStr) == Option("WithFormatString", formatStr, None, FALSE)

WithForcedUnit(unit) == Option("WithForcedUnit", <<>>, unit, FALSE)

WithLongUnits(longUnits) == Option("WithLongUnits", <<>>, None, longUnits)

WithDecimalUnits(decimalUnits) ==
  Option("WithDecimalUnits", <<>>, None, decimalUnits)

DecimalUnitSet == {B, KB, MB, GB, TB, PB, EB, ZB, YB, RB, QB}

BinaryUnitSet == {KiB, MiB, GiB, TiB, PiB, EiB, ZiB, YiB, RiB, QiB}

\* WithFormatString without the test for the empty string
SetFormatStringUnchecked(formatStr, opts) ==
  [opts |-> [opts EXCEPT !.formatStr = formatStr], err |-> "nil"]

\* the closure of WithFormatString(formatStr) on opts: the options after the
\* call and its error
SetFormatString(formatStr, opts) ==
  IF formatStr = <<>>
  THEN [opts |-> opts, err |-> "format string cannot be empty"]
  ELSE [opts |-> [opts EXCEPT !.formatStr = formatStr], err |-> "nil"]

\* the closure of WithForcedUnit(unit)
SetForcedUnit(unit, opts) ==
  IF unit \in DecimalUnitSet
  THEN [opts |-> [opts EXCEPT !.decimalUnits = TRUE,
                              !.forcedUnitType = <<unit>>],
        err |-> "nil"]
  ELSE IF unit \in BinaryUnitSet
  THEN [opts |-> [opts EXCEPT !.decimalUnits = FALSE,
                              !.forcedUnitType = <<unit>>],
        err |-> "nil"]
  ELSE [opts |-> opts, err |-> "invalid forced unit"]

\* the closure of WithLongUnits(longUnits)
SetLongUnits(longUnits, opts) ==
  [opts |-> [opts EXCEPT !.longUnits = longUnits], err |-> "nil"]

\* the closure of WithDecimalUnits(decimalUnits)
SetDecimalUnits(decimalUnits, opts) ==
  [opts |-> [opts EXCEPT !.decimalUnits = decimalUnits], err |-> "nil"]

\* opt(formatOptions)
ApplyOption(opt, opts) ==
  CASE opt.name = "WithFormatString" -> SetFormatString(opt.formatStr, opts)
    [] opt.name = "WithForcedUnit"   -> SetForcedUnit(opt.unit, opts)
    [] opt.name = "WithLongUnits"    -> SetLongUnits(opt.flag, opts)
    [] opt.name = "WithDecimalUnits" -> SetDecimalUnits(opt.flag, opts)

\* the loop over opts from position i, left at the first error
RECURSIVE ApplyOptions(_, _, _)
ApplyOptions(opts, i, fo) ==
  LET Rest(r) == IF r.err # "nil" THEN r ELSE ApplyOptions(opts, i + 1, r.opts)
  IN  IF i > Len(opts) THEN [opts |-> fo, err |-> "nil"]
      ELSE Rest(ApplyOption(opts[i], fo))

DecimalUnitSlice == <<QB, RB, YB, ZB, EB, PB, TB, GB, MB, KB, B>>

\* the binary slice without GiB
BinaryUnitSliceSkipsGiB == <<QiB, RiB, YiB, ZiB, EiB, PiB, TiB, MiB, KiB, B>>

BinaryUnitSlice == <<QiB, RiB, YiB, ZiB, EiB, PiB, TiB, GiB, MiB, KiB, B>>

\* the test with > in the place of >=
IsAbove(b, unit) == Cmp(b, unit) > 0

\* Uint128(b).Cmp(Uint128(unit)) >= 0
IsAtLeast(b, unit) == Cmp(b, unit) >= 0

\* the loop that finds the first unit of unitSlice[i..] not above b; the
\* zero value when there is none
RECURSIVE FindBestUnit(_, _, _)
FindBestUnit(b, unitSlice, i) ==
  IF i > Len(unitSlice) THEN None
  ELSE IF IsAtLeast(b, unitSlice[i]) THEN unitSlice[i]
  ELSE FindBestUnit(b, unitSlice, i + 1)

\* the unit slice of the configured family
UnitSlice(fo) ==
  IF fo.decimalUnits THEN DecimalUnitSlice ELSE BinaryUnitSlice

\* a faulty OrByte: the zero value is kept
OrByteKeepsZero(bestUnit) == bestUnit

\* bestUnit, or B when the loop left the zero value
OrByte(bestUnit) ==
  IF bestUnit.Lo = <<>> /\ bestUnit.Hi = <<>> THEN B ELSE bestUnit

BestUnit(b, fo) ==
  IF fo.forcedUnitType # <<>> THEN fo.forcedUnitType[1]
  ELSE OrByte(FindBestUnit(b, UnitSlice(fo), 1))

UnitMap(fo) ==
  IF fo.decimalUnits
  THEN (IF fo.longUnits THEN LongDecimal ELSE ShortDecimal)
  ELSE (IF fo.longUnits THEN LongBinary ELSE ShortBinary)

\* the value of b in the unit, as format computes it
ValueIn(b, unit) == Quo(SetInt(ToBig(b)), SetInt(ToBig(unit)))

\* the name the map gave, or the fallback
FoundName(got, longUnits) ==
  IF got.found THEN got.name
  ELSE IF longUnits THEN <<"B", "y", "t", "e">>
  ELSE <<"B">>

Pluralized(unitName, longUnits, value) ==
  IF longUnits /\ ~IsOneFloat(value) THEN Append(unitName, "s") ELSE unitName

UnitName(fo, bestUnit, value) ==
  Pluralized(FoundName(MapGet(UnitMap(fo), bestUnit), fo.longUnits),
             fo.longUnits, value)

\* format from the computed value on
FormatValue(fo, bestUnit, value) ==
  [str |-> Sprintf(fo.formatStr, value, UnitName(fo, bestUnit, value)),
   err |-> "nil"]

\* format from the chosen unit on
FormatIn(b, fo, bestUnit) == FormatValue(fo, bestUnit, ValueIn(b, bestUnit))

\* format after the loop over the options
FormatWith(b, applied) ==
  IF applied.err # "nil" THEN [str |-> <<>>, err |-> applied.err]
  ELSE FormatIn(b, applied.opts, BestUnit(b, applied.opts))

format(b, opts) == FormatWith(b, ApplyOptions(opts, 1, newFormatOptions))

NoDivisor == [made |-> FALSE, unit |-> None, value |-> [mant |-> <<>>, exp |-> 0]]

DivisorOf(b, bestUnit) ==
  [made |-> TRUE, unit |-> bestUnit, value |-> ValueIn(b, bestUnit)]

\* the unit whose magnitude format divides by and the quotient it gets, when
\* it comes to divide
DivisorWith(b, applied) ==
  IF applied.err # "nil" THEN NoDivisor
  ELSE DivisorOf(b, BestUnit(b, applied.opts))

Divisor(b, opts) == DivisorWith(b, ApplyOptions(opts, 1, newFormatOptions))

Format(b, opts) == format(b, opts)

\* a faulty SetFrom: *b is assigned whatever Parse returned
SetFromAssignsAlways(old, r) == [val |-> r.val, err |-> r.err]

\* (*Bytes).Set: the value of *b after b.Set(s) and the error returned; *b is
\* assigned only when Parse returned no error
SetFrom(old, r) ==
  IF r.err # "nil" THEN [val |-> old, err |-> r.err]
  ELSE [val |-> r.val, err |-> "nil"]

Set(old, s) == SetFrom(old, Parse(s))

\* (*Bytes).UnmarshalText
UnmarshalText(old, text) == Set(old, text)

\* fmt.Sprintf("%d B", Uint128(b).Lo)
FallbackString(b) == PadLeft(DecDigits(b.Lo), 1) \o <<" ", "B">>

\* String from the result of b.Format() on
StringOf(b, r) == IF r.err # "nil" THEN FallbackString(b) ELSE r.str

\* a faulty String: the fallback in every case
StringByFallback(b) == FallbackString(b)

String(b) == StringOf(b, Format(b, <<>>))

(***************************************************************************)
(* The earlier Parse that bytesize.go keeps after the current one: the     *)
(* numeral is a float64, its whole part is multiplied with                 *)
(* Uint128.Mul64Error and the bytes of its fraction are added with         *)
(* Uint128.Add.                                                            *)
(***************************************************************************)
\* uint64(f) for f >= 2^64 is left to the implementation: zero, 2^63 or
\* 2^64 - 1; and the implementation may fuse x*y + z, rounding once
OutOfRangeUint64 == {<<>>, Shl(<<1>>, 63), SubN(Two64, <<1>>)}

Builds == [big : OutOfRangeUint64, fma : BOOLEAN]

NoMul == [a |-> None, k |-> <<>>, val |-> None, err |-> "none"]

NoAdd == [a |-> None, b |-> None, val |-> None, made |-> FALSE]

\* float64 arithmetic on mant * 2^exp, rounded to nearest, ties to even
Float(mant, exp) == [mant |-> mant, exp |-> exp]

FMul(x, y) == RoundToPrec(MulN(x.mant, y.mant), FALSE, x.exp + y.exp)

MinExp(x, y) == IF x.exp <= y.exp THEN x.exp ELSE y.exp

AlignedAt(x, e) == Shl(x.mant, x.exp - e)

FAddAt(x, y, e) == RoundToPrec(AddN(AlignedAt(x, e), AlignedAt(y, e)), FALSE, e)

FAdd(x, y) == FAddAt(x, y, MinExp(x, y))

\* x - y for x >= y
FSubAt(x, y, e) == RoundToPrec(SubN(AlignedAt(x, e), AlignedAt(y, e)), FALSE, e)

FSub(x, y) == FSubAt(x, y, MinExp(x, y))

\* x*y + z rounded once
FusedMulAdd(x, y, z) == FAdd(Float(MulN(x.mant, y.mant), x.exp + y.exp), z)

\* the integer part of a float64
Trunc(x) == IF x.exp >= 0 THEN Shl(x.mant, x.exp) ELSE Shr(x.mant, 0 - x.exp)

Uint64From(n, build) == IF CmpN(n, Two64) < 0 THEN n ELSE build.big

\* uint64(x)
Uint64(x, build) == Uint64From(Trunc(x), build)

\* num / den rounded to a float64, with s the shift that leaves the quotient
\* FloatPrec + 1 or FloatPrec + 2 bits
RatToFloatBy(num, den, s) ==
  IF s >= 0 THEN RoundQuotient(DivMod(Shl(num, s), den), 0 - s)
  ELSE RoundQuotient(DivMod(num, Shl(den, 0 - s)), 0 - s)

RatToFloat(num, den) ==
  RatToFloatBy(num, den, FloatPrec + 2 + BitLen(den) - BitLen(num))

\* the number of characters after the '.' of a numeral
FracLen(numStr) ==
  IF \A i \in 1..Len(numStr) : numStr[i] # "." THEN 0
  ELSE Len(numStr) - (CHOOSE i \in 1..Len(numStr) : numStr[i] = ".")

\* strconv.ParseFloat(numStr, 64) on digits with at most one '.': the
\* nearest float64, and an error when there is no digit
ParseFloat(numStr) ==
  IF SelectSeq(numStr, IsDigit) = <<>> THEN [ok |-> FALSE, val |-> Float(<<>>, 0)]
  ELSE [ok |-> TRUE,
        val |-> RatToFloat(DecValue(SelectSeq(numStr, IsDigit)),
                           Pow(10, FracLen(numStr)))]

\* the scan of the earlier Parse: digits and '.' are the numeral, every
\* other character that is no whitespace is the unit
IsFloatRune(r) == IsDigit(r) \/ r = "."

IsRestRune(r) == ~IsSpace(r) /\ ~IsFloatRune(r)

EarlierFail(e) == [val |-> None, err |-> e, mul |-> NoMul, add |-> NoAdd]

MulCall(a, k, r) == [a |-> a, k |-> k, val |-> r.val, err |-> r.err]

AddCall(a, b, sum) == [a |-> a, b |-> b, val |-> sum, made |-> TRUE]

Times2To64(x) == Float(x.mant, x.exp + 64)

\* floatPart * float64(multiplier.Hi) * math.Pow(2, 64)
HighPart(floatPart, multiplier) ==
  Times2To64(FMul(floatPart, SetInt(multiplier.Hi)))

\* the bytes of the fraction as a float64
FracValue(floatPart, multiplier, build) ==
  IF multiplier.Hi = <<>> THEN FMul(floatPart, SetInt(multiplier.Lo))
  ELSE IF build.fma
  THEN FusedMulAdd(floatPart, SetInt(multiplier.Lo),
                   HighPart(floatPart, multiplier))
  ELSE FAdd(FMul(floatPart, SetInt(multiplier.Lo)),
            HighPart(floatPart, multiplier))

\* a faulty FracBytes: the bytes of the fraction are put into the high word
FracBytesInHi(floatPart, multiplier, build) ==
  [Lo |-> <<>>, Hi |-> Uint64(FracValue(floatPart, multiplier, build), build)]

\* fracBytes := Uint128{uint64(fracValue), 0}
FracBytes(floatPart, multiplier, build) ==
  [Lo |-> Uint64(FracValue(floatPart, multiplier, build), build), Hi |-> <<>>]

\* result = result.Add(fracBytes), and the return
EarlierAdd(result, fracBytes, mul) ==
  [val |-> Add(result, fracBytes), err |-> "nil", mul |-> mul,
   add |-> AddCall(result, fracBytes, Add(result, fracBytes))]

\* the earlier Parse from the product on
EarlierSum(r, floatPart, multiplier, build, mul) ==
  IF r.err # "nil"
  THEN [val |-> None, err |-> "Uint128 multiplying error", mul |-> mul,
        add |-> NoAdd]
  ELSE IF floatPart.mant = <<>>
  THEN [val |-> r.val, err |-> "nil", mul |-> mul, add |-> NoAdd]
  ELSE EarlierAdd(r.val, FracBytes(floatPart, multiplier, build), mul)

EarlierProductOf(r, uint64Num, floatPart, multiplier, build) ==
  EarlierSum(r, floatPart, multiplier, build, MulCall(multiplier, uint64Num, r))

\* uint64Num := uint64(num); floatPart := num - float64(uint64Num); and the
\* call of Mul64Error
EarlierProduct(num, uint64Num, multiplier, build) ==
  EarlierProductOf(Mul64Error(multiplier, uint64Num), uint64Num,
                   FSub(num, SetInt(uint64Num)), multiplier, build)

\* the earlier Parse from its switch on the lower-case unit text on
EarlierUnit(num, multiplier, build) ==
  IF multiplier.err # "nil" THEN EarlierFail("unknown unit")
  ELSE EarlierProduct(num, Uint64(num, build), multiplier.val, build)

EarlierNumber(num, unitRunes, build) ==
  IF ~num.ok THEN EarlierFail("invalid number")
  ELSE EarlierUnit(num.val, UnitSwitch(ToLower(unitRunes)), build)

EarlierTrimmed(s, build) ==
  IF s = <<>> THEN EarlierFail("empty string")
  ELSE IF Len(SelectSeq(s, IsPoint)) > 1
  THEN EarlierFail("invalid number: multiple decimal points")
  ELSE EarlierNumber(ParseFloat(SelectSeq(s, IsFloatRune)),
                     SelectSeq(s, IsRestRune), build)

\* the earlier Parse (bytesize.go:691-858) as the build runs it
ParseEarlier(s, build) == EarlierTrimmed(TrimSpace(s), build)

(***************************************************************************)
(* The inputs of the calls.                                                *)
(***************************************************************************)
MaxIntDigits == 2

MaxFracDigits == 2

MaxEdits == 1

MaxMultiple == 2

MaxOpts == 2

\* the strings over the characters cs of at most n characters
RECURSIVE StringsUpTo(_, _)
StringsUpTo(cs, n) ==
  IF n = 0 THEN {<<>>}
  ELSE LET shorter == StringsUpTo(cs, n - 1)
       IN  shorter \cup {Append(s, c) : s \in shorter, c \in cs}

TestDigits == {"0", "7"}

\* numerals: an integer part, then nothing or a point and a fraction part
Numerals ==
  {int \o frac :
     int \in StringsUpTo(TestDigits, MaxIntDigits),
     frac \in {<<>>} \cup {<<".">> \o f : f \in StringsUpTo(TestDigits, MaxFracDigits)}}

Signs == {<<>>, <<"-">>}

Separators == {<<>>, <<" ">>}

\* unit texts: the short names, some long names, and texts that name no unit
UnitTexts ==
  { <<"B">>,
    <<"K", "B">>,
    <<"M", "B">>,
    <<"G", "B">>,
    <<"T", "B">>,
    <<"P", "B">>,
    <<"E", "B">>,
    <<"Z", "B">>,
    <<"Y", "B">>,
    <<"R", "B">>,
    <<"Q", "B">>,
    <<"K", "i", "B">>,
    <<"M", "i", "B">>,
    <<"G", "i", "B">>,
    <<"T", "i", "B">>,
    <<"P", "i", "B">>,
    <<"E", "i", "B">>,
    <<"Z", "i", "B">>,
    <<"Y", "i", "B">>,
    <<"R", "i", "B">>,
    <<"Q", "i", "B">>,
    <<"b", "y", "t", "e", "s">>,
    <<"K", "i", "l", "o", "b", "y", "t", "e">>,
    <<"m", "e", "b", "i", "b", "y", "t", "e", "s">>,
    <<"Q", "U", "E", "T", "T", "A", "B", "Y", "T", "E", "S">>,
    <<"X", "B">>,
    <<"k", "i", "l", "o", "b", "i", "t">>,
    <<>> }


GeneratedInputs ==
  {sign \o num \o sep \o unit :
     sign \in Signs, num \in Numerals, sep \in Separators, unit \in UnitTexts}

RegisteredUnits == DecimalUnitSet \cup BinaryUnitSet

\* the short name of a registered unit
ShortName(u) ==
  IF u = B THEN <<"B">>
  ELSE IF u \in DecimalUnitSet THEN MapGet(ShortDecimal, u).name
  ELSE MapGet(ShortBinary, u).name

\* the numeral of n / 10^k: the digits of n with the point k digits from the right
PointNumeral(n, k) == InsertPoint(PadLeft(DecDigits(n), k + 1), k)

\* the exponent k of a decimal unit 10^k
RECURSIVE DecimalExponent(_)
DecimalExponent(m) ==
  IF m = <<1>> THEN 0 ELSE 3 + DecimalExponent(DivSmall(m, 1000).q)

\* numerals n with n * u exactly total: total / 10^k shifts the point, and
\* total / 2^k is total * 5^k / 10^k
ExactNumeral(total, u) ==
  IF u \in DecimalUnitSet
  THEN PointNumeral(total, DecimalExponent(ToBig(u)))
  ELSE LET k == BitLen(ToBig(u)) - 1
       IN  PointNumeral(MulN(Pow(5, k), total), k)

WholeNumerals(whole) == {DecDigits(whole), DecDigits(AddN(whole, <<1>>))}

BoundaryNumerals(u) ==
  WholeNumerals(DivMod(SubN(Two128, <<1>>), ToBig(u)).q)
    \cup {ExactNumeral(SubN(Two128, <<1>>), u), ExactNumeral(Two128, u)}

\* inputs at the edge of 128 bits, for every unit: the largest whole numeral
\* that fits and the next one, and the numerals of exactly 2^128 - 1 and 2^128
BoundaryInputs ==
  UNION {{n \o <<" ">> \o ShortName(u) : n \in BoundaryNumerals(u)} :
         u \in RegisteredUnits}

\* the inputs of the documentation and of the tests
ExampleInputs ==
  { <<"1", "0", " ", "M", "B">>,
    <<"1", ".", "5", " ", "K", "B">>,
    <<"0", ".", "1", " ", "G", "B">>,
    <<"0", ".", "0", "0", "0", "0", "1", " ", "K", "B">>,
    <<"0", " ", "B">>,
    <<"5", ".", "5", " ", "G", "i", "B">>,
    <<"1", "0", "0", " ", "k", "i", "l", "o", "b", "y", "t", "e", "s">>,
    <<"2", ".", "3", "4", " ", "T", "e", "b", "i", "b", "y", "t", "e", "s">>,
    <<"1", " ", "K", "B">>,
    <<"1", "k", "b">>,
    <<" ", " ", "1", " ", " ", " ", "K", "b", " ", " ">>,
    <<"-", "1", " ", "B">>,
    <<"-", "5", " ", "M", "B">>,
    <<"-", "0", ".", "1", " ", "G", "B">>,
    <<"1", "0", "0", "0", " ", "Q", "B">>,
    <<"9", "9", "9", " ", "Q", "B">>,
    <<"3", "4", "0", "2", "8", "2", "3", "6", "6", " ", "Q", "B">>,
    <<"3", "4", "0", "2", "8", "2", "3", "6", "7", " ", "Q", "B">>,
    <<"1", "8", "4", "4", "6", "7", "4", "4", "0", "7", "3", "7", "0", "9", "5", "5", "1", "6", "1", "5", " ", "B">>,
    <<"1", ".", "2", ".", "3", " ", "K", "B">>,
    <<>>,
    <<" ">>,
    <<"\t">>,
    <<"a", "b", "c">>,
    <<"M", "B">>,
    <<" ", ".", " ", "M", "B">>,
    <<"1", "0", " ", "X", "B">>,
    <<"1", " ", "k", "i", "l", "o", "b", "i", "t">>,
    <<"\t", "1", "2", " ", "m", "b", "\n">>,
    <<"M", "B", " ", "1", "0">>,
    <<"1", ".", ".", "5", " ", "K", "B">>,
    <<"1", ".", "5", " ", "K", ".", "B">>,
    <<" ", ".", " ", ".", " ", "M", "B">>,
    <<".", ".">>,
    <<"-", "1", ".", "2", ".", "3", " ", "X", "B">>,
    <<"K", ".", "B">>,
    <<"1", "-", "2", " ", "K", "B">>,
    <<" ", "5", "\t", "K", "-", "i", " ", "B", "\n">>,
    <<"1", ".", "5", " ", "X", ".", "B">>,
    <<"1", " ", "M", " ", "0", " ", "B">> }


(***************************************************************************)
(* The state: a client makes the calls of todo in order.  input is the     *)
(* argument of Parse and <<perr, pval>> its result; prev is the call a     *)
(* variant of the input was derived from.                                  *)
(***************************************************************************)
\* the values n * u - 1, n * u and n * u + 1 for the registered units u
UnitValues ==
  UNION {LET m == MulSmall(ToBig(u), n)
         IN  {FromBig(SubN(m, <<1>>)), FromBig(m), FromBig(AddN(m, <<1>>))} :
         u \in RegisteredUnits, n \in 1..MaxMultiple}

\* 2^53 + 1, the first integer above the 53 bits of a Float, as bytes and as
\* kilobytes, and the largest value
EdgeValues ==
  {FromBig(AddN(Pow(2, 53), <<1>>)),
   FromBig(MulSmall(AddN(Pow(2, 53), <<1>>), 1000)),
   FromBig(SubN(Two128, <<1>>))}

\* the option lists of the documentation: nothing, a family, long names, a
\* forced unit
SimpleLists ==
  {<<>>, <<WithDecimalUnits(FALSE)>>, <<WithLongUnits(TRUE)>>,
   <<WithLongUnits(TRUE), WithDecimalUnits(FALSE)>>}
  \cup {<<WithForcedUnit(u)>> : u \in RegisteredUnits}

PercentZeroF == <<"%", ".", "0", "f", " ", "%", "s">>

\* options of every kind, valid and invalid
OptionPool ==
  {WithFormatString(<<>>), WithFormatString(PercentZeroF),
   WithForcedUnit(B), WithForcedUnit(KB), WithForcedUnit(KiB),
   WithForcedUnit(None), WithForcedUnit(FromBig(FromInt(7))),
   WithLongUnits(TRUE), WithLongUnits(FALSE),
   WithDecimalUnits(TRUE), WithDecimalUnits(FALSE)}

\* the lists over OptionPool of at most n options
RECURSIVE ListsUpTo(_)
ListsUpTo(n) ==
  IF n = 0 THEN {<<>>}
  ELSE LET shorter == ListsUpTo(n - 1)
       IN  shorter \cup {Append(l, o) : l \in shorter, o \in OptionPool}

OptionLists == ListsUpTo(MaxOpts)

ProbeValues ==
  {None, One, FromBig(FromInt(999)), FromBig(FromInt(1000)),
   FromBig(FromInt(1024)), FromBig(FromInt(2048))}

VARIABLES op, todo, input, perr, pval, prev, fval, fopts, ferr, fstr,
          valid, byMap, byNested, scanned, mulCall, addCall, divisor

\* the results of IsValidUnit and of the two other lookups on the text input
lookups == <<valid, byMap, byNested>>

\* what the call of Parse got from getNumAndUnitRunes, the operands and
\* results of the last calls of Mul64Error and of Add, and the unit that the
\* call of Format divided by with the quotient
inner == <<scanned, mulCall, addCall, divisor>>

vars ==
  <<registry, op, todo, input, perr, pval, prev, fval, fopts, ferr, fstr,
    lookups, inner>>

NoScan == [numRunes |-> <<>>, unitRunes |-> <<>>, err |-> "none"]


NoCall == [input |-> <<>>, err |-> "none", val |-> None]

\* the package is initialised
InitUnits == InitDecimalUnits /\ InitBinaryUnits /\ InitTables

\* the calls that follow, on the input s or on the value b with the options opts
InitWith(calls, s, b, opts) ==
  /\ op = "none"
  /\ todo = calls
  /\ input = s
  /\ perr = "none"
  /\ pval = None
  /\ prev = NoCall
  /\ fval = b
  /\ fopts = opts
  /\ ferr = "none"
  /\ fstr = <<>>
  /\ valid = FALSE
  /\ byMap = NoCall
  /\ byNested = NoCall
  /\ scanned = NoScan
  /\ mulCall = NoMul
  /\ addCall = NoAdd
  /\ divisor = NoDivisor

ParseCalls ==
  \/ \E s \in GeneratedInputs : InitWith(<<"Parse">>, s, None, <<>>)
  \/ \E s \in BoundaryInputs : InitWith(<<"Parse">>, s, None, <<>>)
  \/ \E s \in ExampleInputs : InitWith(<<"Parse">>, s, None, <<>>)

VariantCalls ==
  \E s \in ExampleInputs, n \in 1..MaxEdits :
    InitWith(<<"Parse">> \o [i \in 1..n |-> "ParseVariant"], s, None, <<>>)

FormatCalls ==
  \/ \E b \in UnitValues, opts \in SimpleLists :
       InitWith(<<"Format", "ParseFormatted">>, <<>>, b, opts)
  \/ \E b \in EdgeValues, opts \in SimpleLists :
       InitWith(<<"Format", "ParseFormatted">>, <<>>, b, opts)
  \/ \E b \in ProbeValues, opts \in OptionLists :
       InitWith(<<"Format", "ParseFormatted">>, <<>>, b, opts)

\* the option lists of the binary family
BinaryLists ==
  {<<WithDecimalUnits(FALSE)>>, <<WithLongUnits(TRUE), WithDecimalUnits(FALSE)>>}

\* a value is formatted, then 1024 times the value
ScaledCalls ==
  \E b \in UnitValues \cup EdgeValues \cup ProbeValues, opts \in BinaryLists :
    InitWith(<<"Format", "FormatScaled">>, <<>>, b, opts)

\* unit texts that name no unit: prefixes, typos, texts that only begin like
\* a name
OtherUnitTexts ==
  { <<>>, <<" ">>, <<"k">>, <<"k", "i">>, <<"m", "i">>, <<"q", "u", "e">>,
    <<"g", "i", "g", "a", "b", "y", "t", "e", "e">>,
    <<"k", "i", "l", "o", "b", "i", "t">>,
    <<"K", "i", "o", "b", "y", "t", "e">>, <<"K", "l", "o", "b", "y", "t", "e">>,
    <<"b", "o", "g", "u", "s">>, <<"k", "b", "x", "y", "z">>, <<"x", "b">> }

\* the text w as it is, in other cases, with whitespace around it or in it,
\* cut short and lengthened
TextEdits(w) ==
  {w, [i \in 1..Len(w) |-> ToUpperRune(w[i])],
   [i \in 1..Len(w) |-> IF i = 1 THEN ToUpperRune(w[i]) ELSE w[i]],
   <<" ">> \o w \o <<" ">>, <<"\t">> \o w \o <<"\n">>,
   <<" ">> \o [i \in 1..Len(w) |-> ToUpperRune(w[i])] \o <<"\t">>,
   SubSeq(w, 1, 1) \o <<" ">> \o SubSeq(w, 2, Len(w)),
   SubSeq(w, 1, Len(w) - 1), SubSeq(w, 2, Len(w)),
   Append(w, "e"), Append(w, "s")}

LookupTodo == <<"Resolve", "IsValidUnit", "MapVersion", "NestedVersion">>

\* the lookups of a unit text: every valid unit string and its edits, and
\* the texts that name no unit
LookupCalls ==
  \/ \E i \in 1..Len(ValidUnits) :
       \E w \in TextEdits(ValidUnits[i]) : InitWith(LookupTodo, w, None, <<>>)
  \/ \E w \in OtherUnitTexts \cup UnitTexts : InitWith(LookupTodo, w, None, <<>>)

\* unit texts with whitespace between their letters
SpacedUnitTexts ==
  { <<"k", "i", "l", "o", " ", "b", "y", "t", "e", "s">>,
    <<" ", "M", " ", "i", " ", "B", " ">>,
    <<"k", "\t", "b">>,
    <<"x", " ", "b">> }

\* a unit text u is looked up with IsValidUnit, then parsed as the unit of
\* the number 1
UnitTextCalls ==
  \/ \E i \in 1..Len(ValidUnits) :
       \E w \in TextEdits(ValidUnits[i]) :
         InitWith(<<"IsValidUnit", "ParseWithUnit">>, w, None, <<>>)
  \/ \E w \in OtherUnitTexts \cup UnitTexts \cup SpacedUnitTexts :
       InitWith(<<"IsValidUnit", "ParseWithUnit">>, w, None, <<>>)

InitUnitText == InitUnits /\ UnitTextCalls

\* a value is formatted without options, then rendered with String
StringCalls ==
  \E b \in UnitValues \cup EdgeValues \cup ProbeValues :
    InitWith(<<"Format", "String">>, <<>>, b, <<>>)

\* the calls of the package on a variable b of the client, and Set on the
\* package's variable KB, which a pointer receiver may name as well
CallNames ==
  {"Parse", "Format", "String", "IsValidUnit", "Set", "UnmarshalText", "KB.Set"}

CallLists ==
  {<<c>> : c \in CallNames} \cup {<<c, d>> : c \in CallNames, d \in CallNames}

MixedInputs ==
  { <<"5", " ", "M", "B">>, <<"1", " ", "K", "B">>, <<"a", "b", "c">>,
    <<"-", "1", " ", "B">> }

MixedCalls ==
  \E calls \in CallLists, s \in MixedInputs,
     opts \in {<<>>, <<WithForcedUnit(KiB)>>, <<WithFormatString(<<>>)>>} :
    InitWith(calls, s, FromBig(FromInt(2048)), opts)

\* up to three calls of Set and UnmarshalText on one variable b of the
\* client, each with a text of its own
SetNames == {"Set", "UnmarshalText"}

SetLists ==
  {<<c>> : c \in SetNames}
    \cup {<<c, "NextInput", d>> : c \in SetNames, d \in SetNames}
    \cup {<<c, "NextInput", d, "NextInput", e>> :
            c \in SetNames, d \in SetNames, e \in SetNames}

SetInputs == MixedInputs \cup {<<>>, <<"1", ".", "5", " ", "K", "i", "B">>}

SetCalls ==
  \E calls \in SetLists, s \in SetInputs, b \in {None, FromBig(FromInt(2048))} :
    InitWith(calls, s, b, <<>>)

InitSet == InitUnits /\ SetCalls

\* numerals with a fraction on units of two words, and numerals of 2^64 and
\* more
EarlierInputs ==
  { <<"0", ".", "5", " ", "Z", "B">>,
    <<"7", ".", "5", " ", "Q", "i", "B">>,
    <<"0", ".", "1", " ", "Q", "B">>,
    <<"3", "4", "0", "2", "8", "2", "3", "6", "6", ".", "9", " ", "Q", "B">>,
    <<"2", "6", "8", "4", "3", "5", "4", "5", "5", ".", "9", "9", " ", "Q", "i", "B">>,
    <<"1", "8", "4", "4", "6", "7", "4", "4", "0", "7", "3", "7", "0", "9", "5",
      "5", "1", "6", "1", "6", " ", "B">>,
    <<"1", "8", "4", "4", "6", "7", "4", "4", "0", "7", "3", "7", "0", "9", "5",
      "5", "1", "6", "1", "6", ".", "5", " ", "K", "B">>,
    <<"4", "0", "0", "0", "0", "0", "0", "0", "0", "0", "0", "0", "0", "0", "0",
      "0", "0", "0", "0", "0", " ", "B">>,
    <<"4", "0", "0", "0", "0", "0", "0", "0", "0", "0", "0", "0", "0", "0", "0",
      "0", "0", "0", "0", "0", " ", "E", "i", "B">>,
    <<"3", "4", "0", "2", "8", "2", "3", "6", "6", "9", "2", "0", "9", "3", "8",
      "4", "6", "3", " ", "Z", "B">>,
    <<"-", "5", " ", "K", "B">>,
    <<"5">> }

\* numerals with fractions, up to the fractions next to 2^52, and whole
\* numerals around 2^53 and 2^64
EarlierNumerals ==
  { <<"0", ".", "5">>,
    <<"0", ".", "0", "7">>,
    <<"0", ".", "7">>,
    <<"7", ".", "0", "7">>,
    <<"7", ".", "7">>,
    <<"7", "0", ".", "7", "7">>,
    <<"7", "7">>,
    <<"0", ".", "9", "9">>,
    <<"0", ".", "0", "1">>,
    <<"9", "9", "9", ".", "9", "9", "9">>,
    <<"1", "0", "2", "3", ".", "9", "9", "9">>,
    <<"4", "5", "0", "3", "5", "9", "9", "6", "2", "7", "3", "7", "0", "4", "9", "5", ".", "5">>,
    <<"9", "0", "0", "7", "1", "9", "9", "2", "5", "4", "7", "4", "0", "9", "9", "3">>,
    <<"1", "8", "4", "4", "6", "7", "4", "4", "0", "7", "3", "7", "0", "9", "5", "5", "1", "6", "1", "5">>,
    <<"1", "8", "4", "4", "6", "7", "4", "4", "0", "7", "3", "7", "0", "9", "5", "5", "1", "6", "1", "6", ".", "5">>,
    <<"3", "4", "0", "2", "8", "2", "3", "6", "6", ".", "9">>,
    <<"2", "6", "8", "4", "3", "5", "4", "5", "5", ".", "9", "9">> }

\* every such numeral with every unit
FractionInputs ==
  {n \o <<" ">> \o ShortName(u) : n \in EarlierNumerals, u \in RegisteredUnits}

EarlierCalls ==
  \/ \E s \in FractionInputs : InitWith(<<"ParseEarlier">>, s, None, <<>>)
  \/ \E s \in BoundaryInputs : InitWith(<<"ParseEarlier">>, s, None, <<>>)
  \/ \E s \in ExampleInputs \cup EarlierInputs :
       InitWith(<<"ParseEarlier">>, s, None, <<>>)

\* values a to multiply with scalars
MulCalls ==
  \E a \in UnitValues \cup EdgeValues \cup ProbeValues :
    InitWith(<<"Mul64Error">>, <<>>, a, <<>>)

InitEarlier == InitUnits /\ EarlierCalls

InitMul == InitUnits /\ MulCalls

InitParse == InitUnits /\ ParseCalls

InitMixed == InitUnits /\ MixedCalls

InitString == InitUnits /\ StringCalls

InitLookup == InitUnits /\ LookupCalls

InitScaled == InitUnits /\ ScaledCalls

InitVariants == InitUnits /\ VariantCalls

InitFormat == InitUnits /\ FormatCalls

Init ==
  InitUnits
    /\ (\/ ParseCalls \/ VariantCalls \/ FormatCalls \/ ScaledCalls
        \/ LookupCalls \/ StringCalls \/ MixedCalls \/ EarlierCalls \/ MulCalls
        \/ SetCalls \/ UnitTextCalls)

\* what Parse gets from getNumAndUnitRunes on the trimmed input s; it makes
\* no call for the empty string
Scan(s) == IF s = <<>> THEN NoScan ELSE getNumAndUnitRunes(s)

\* the call Parse(input)
DoParse ==
  /\ todo # <<>> /\ Head(todo) = "Parse"
  /\ LET r == Parse(input)
     IN  perr' = r.err /\ pval' = r.val
  /\ scanned' = Scan(TrimSpace(input))
  /\ op' = "Parse"
  /\ todo' = Tail(todo)
  /\ UNCHANGED <<registry, mulCall, addCall, divisor, lookups, input, prev, fval,
                 fopts, ferr, fstr>>

WhiteSpace == {" ", "\t", "\n"}

SwapCase(r) == IF IsUpper(r) THEN ToLowerRune(r) ELSE ToUpperRune(r)

\* s with one whitespace character inserted or removed, or the case of one
\* letter changed
Variants(s) ==
  {SubSeq(s, 1, i) \o <<w>> \o SubSeq(s, i + 1, Len(s)) :
     i \in 0..Len(s), w \in WhiteSpace}
  \cup {SubSeq(s, 1, i - 1) \o SubSeq(s, i + 1, Len(s)) :
          i \in {j \in 1..Len(s) : IsSpace(s[j])}}
  \cup {[s EXCEPT ![i] = SwapCase(s[i])] :
          i \in {j \in 1..Len(s) : IsUpper(s[j]) \/ IsLower(s[j])}}

\* the call Parse(v) for a variant v of the last input
DoParseVariant ==
  /\ todo # <<>> /\ Head(todo) = "ParseVariant"
  /\ \E v \in Variants(input) :
       /\ input' = v
       /\ LET r == Parse(v)
          IN  perr' = r.err /\ pval' = r.val
  /\ prev' = [input |-> input, err |-> perr, val |-> pval]
  /\ op' = "ParseVariant"
  /\ todo' = Tail(todo)
  /\ UNCHANGED <<registry, inner, lookups, fval, fopts, ferr, fstr>>

\* the call fval.Format(fopts...)
DoFormat ==
  /\ todo # <<>> /\ Head(todo) = "Format"
  /\ LET r == Format(fval, fopts)
     IN  fstr' = r.str /\ ferr' = r.err
  /\ divisor' = Divisor(fval, fopts)
  /\ op' = "Format"
  /\ todo' = Tail(todo)
  /\ UNCHANGED <<registry, scanned, mulCall, addCall, lookups, input, perr, pval,
                 prev, fval, fopts>>

\* the call Parse(fstr) on the string that Format returned without an error
DoParseFormatted ==
  /\ todo # <<>> /\ Head(todo) = "ParseFormatted"
  /\ ferr = "nil"
  /\ input' = fstr
  /\ LET r == Parse(fstr)
     IN  perr' = r.err /\ pval' = r.val
  /\ op' = "ParseFormatted"
  /\ todo' = Tail(todo)
  /\ UNCHANGED <<registry, inner, lookups, prev, fval, fopts, ferr, fstr>>

\* 1024 * b fits 128 bits
FitsTimes1024(b) == CmpN(MulSmall(ToBig(b), 1024), Two128) < 0

\* the call (1024 * fval).Format(fopts...) after fval.Format(fopts...); prev
\* keeps the first call: its value, its error and the string it returned
DoFormatScaled ==
  /\ todo # <<>> /\ Head(todo) = "FormatScaled"
  /\ FitsTimes1024(fval)
  /\ prev' = [input |-> fstr, err |-> ferr, val |-> fval]
  /\ fval' = FromBig(MulSmall(ToBig(fval), 1024))
  /\ LET r == Format(FromBig(MulSmall(ToBig(fval), 1024)), fopts)
     IN  fstr' = r.str /\ ferr' = r.err
  /\ op' = "FormatScaled"
  /\ todo' = Tail(todo)
  /\ UNCHANGED <<registry, inner, lookups, input, perr, pval, fopts>>

\* the call getMultiplierForUnitString(input)
DoResolve ==
  /\ todo # <<>> /\ Head(todo) = "Resolve"
  /\ LET r == getMultiplierForUnitString(input)
     IN  perr' = r.err /\ pval' = r.val
  /\ op' = "Resolve"
  /\ todo' = Tail(todo)
  /\ UNCHANGED <<registry, inner, lookups, input, prev, fval, fopts, ferr, fstr>>

\* the call IsValidUnit(input)
DoIsValidUnit ==
  /\ todo # <<>> /\ Head(todo) = "IsValidUnit"
  /\ valid' = IsValidUnit(input)
  /\ op' = "IsValidUnit"
  /\ todo' = Tail(todo)
  /\ UNCHANGED <<registry, inner, byMap, byNested, input, perr, pval, prev, fval,
                 fopts, ferr, fstr>>

\* the call Parse("1" + input)
DoParseWithUnit ==
  /\ todo # <<>> /\ Head(todo) = "ParseWithUnit"
  /\ LET r == Parse(<<"1">> \o input)
     IN  perr' = r.err /\ pval' = r.val
  /\ op' = "ParseWithUnit"
  /\ todo' = Tail(todo)
  /\ UNCHANGED <<registry, inner, lookups, input, prev, fval, fopts, ferr, fstr>>

\* the call getMultiplierByUnitStringMapVersion(input)
DoMapVersion ==
  /\ todo # <<>> /\ Head(todo) = "MapVersion"
  /\ LET r == getMultiplierByUnitStringMapVersion(input)
     IN  byMap' = [input |-> input, err |-> r.err, val |-> r.val]
  /\ op' = "MapVersion"
  /\ todo' = Tail(todo)
  /\ UNCHANGED <<registry, inner, valid, byNested, input, perr, pval, prev, fval,
                 fopts, ferr, fstr>>

\* the call getMultiplierByUnitStringNestedSwitchesVersion(input)
DoNestedVersion ==
  /\ todo # <<>> /\ Head(todo) = "NestedVersion"
  /\ LET r == getMultiplierByUnitStringNestedSwitchesVersion(input)
     IN  byNested' = [input |-> input, err |-> r.err, val |-> r.val]
  /\ op' = "NestedVersion"
  /\ todo' = Tail(todo)
  /\ UNCHANGED <<registry, inner, valid, byMap, input, perr, pval, prev, fval,
                 fopts, ferr, fstr>>

\* the call fval.String() after fval.Format(); prev keeps the call of Format
DoString ==
  /\ todo # <<>> /\ Head(todo) = "String"
  /\ prev' = [input |-> fstr, err |-> ferr, val |-> fval]
  /\ fstr' = String(fval)
  /\ ferr' = "none"
  /\ op' = "String"
  /\ todo' = Tail(todo)
  /\ UNCHANGED <<registry, inner, lookups, input, perr, pval, fval, fopts>>

\* the call b.Set(input) on the client's variable b, held in fval
DoSet ==
  /\ todo # <<>> /\ Head(todo) = "Set"
  /\ LET r == Set(fval, input)
     IN  fval' = r.val /\ perr' = r.err
  /\ op' = "Set"
  /\ todo' = Tail(todo)
  /\ UNCHANGED <<registry, inner, lookups, input, pval, prev, fopts, ferr, fstr>>

\* the call b.UnmarshalText(input) on the client's variable b
DoUnmarshalText ==
  /\ todo # <<>> /\ Head(todo) = "UnmarshalText"
  /\ LET r == UnmarshalText(fval, input)
     IN  fval' = r.val /\ perr' = r.err
  /\ op' = "UnmarshalText"
  /\ todo' = Tail(todo)
  /\ UNCHANGED <<registry, inner, lookups, input, pval, prev, fopts, ferr, fstr>>

\* the client takes the text of its next call
DoNextInput ==
  /\ todo # <<>> /\ Head(todo) = "NextInput"
  /\ \E s \in SetInputs : input' = s
  /\ op' = "NextInput"
  /\ todo' = Tail(todo)
  /\ UNCHANGED <<registry, inner, lookups, perr, pval, prev, fval, fopts, ferr,
                 fstr>>

\* the call KB.Set(input): the receiver is the address of the package's
\* variable KB, and *b = parsed assigns to it
DoSetKB ==
  /\ todo # <<>> /\ Head(todo) = "KB.Set"
  /\ LET r == Set(KB, input)
     IN  KB' = r.val /\ perr' = r.err
  /\ op' = "KB.Set"
  /\ todo' = Tail(todo)
  /\ UNCHANGED <<unitsAfterKB, tables, inner, lookups, input, pval, prev, fval, fopts,
                 ferr, fstr>>

\* the call of the earlier Parse on input, on one of the builds
DoParseEarlier ==
  /\ todo # <<>> /\ Head(todo) = "ParseEarlier"
  /\ \E build \in Builds :
       LET r == ParseEarlier(input, build)
       IN  perr' = r.err /\ pval' = r.val /\ mulCall' = r.mul /\ addCall' = r.add
  /\ op' = "ParseEarlier"
  /\ todo' = Tail(todo)
  /\ UNCHANGED <<registry, scanned, divisor, lookups, input, prev, fval, fopts,
                 ferr, fstr>>

\* the largest scalar k with a * k below 2^128, when it is a uint64
LargestScalar(a) ==
  IF a = None \/ CmpN(ToBig(a), Two64) < 0 THEN SubN(Two64, <<1>>)
  ELSE DivMod(SubN(Two128, <<1>>), ToBig(a)).q

\* scalars at the edges: 0, 1, 2^64 - 1, and the largest scalar that a can
\* take and the next one
Scalars(a) ==
  {<<>>, <<1>>, SubN(Two64, <<1>>), LargestScalar(a),
   LowBits(AddN(LargestScalar(a), <<1>>), 64)}

\* the call fval.Mul64Error(k)
DoMul64Error ==
  /\ todo # <<>> /\ Head(todo) = "Mul64Error"
  /\ \E k \in Scalars(fval) : mulCall' = MulCall(fval, k, Mul64Error(fval, k))
  /\ op' = "Mul64Error"
  /\ todo' = Tail(todo)
  /\ UNCHANGED <<registry, scanned, addCall, divisor, lookups, input, perr,
                 pval, prev, fval, fopts, ferr, fstr>>

Next ==
  \/ DoParseEarlier \/ DoMul64Error \/ DoNextInput \/ DoParseWithUnit
  \/ DoSet \/ DoUnmarshalText \/ DoSetKB
  \/ DoString
  \/ DoParse \/ DoParseVariant \/ DoFormat \/ DoParseFormatted \/ DoFormatScaled
  \/ DoResolve \/ DoIsValidUnit \/ DoMapVersion \/ DoNestedVersion

Spec == Init /\ [][Next]_vars

SpecParse == InitParse /\ [][DoParse]_vars

SpecEarlier == InitEarlier /\ [][DoParseEarlier]_vars

SpecMul == InitMul /\ [][DoMul64Error]_vars

SpecSet == InitSet /\ [][DoSet \/ DoUnmarshalText \/ DoNextInput]_vars

SpecUnitText == InitUnitText /\ [][DoIsValidUnit \/ DoParseWithUnit]_vars

SpecVariants == InitVariants /\ [][DoParse \/ DoParseVariant]_vars

SpecFormat == InitFormat /\ [][DoFormat \/ DoParseFormatted]_vars

SpecScaled == InitScaled /\ [][DoFormat \/ DoFormatScaled]_vars

SpecString == InitString /\ [][DoFormat \/ DoString]_vars

SpecMixed ==
  InitMixed
    /\ [][\/ DoParse \/ DoFormat \/ DoString \/ DoIsValidUnit
          \/ DoSet \/ DoUnmarshalText \/ DoSetKB]_vars

SpecLookup ==
  InitLookup
    /\ [][DoResolve \/ DoIsValidUnit \/ DoMapVersion \/ DoNestedVersion]_vars

(***************************************************************************)
(* What an input says, read off its characters without the parser: the     *)
(* numeral is mantissa / scale, the unit text names a magnitude.           *)
(***************************************************************************)
IsNumRune(r) == r = "-" \/ IsDigit(r) \/ r = "."

NumChars(s) == SelectSeq(s, IsNumRune)

IsUnitRune(r) == ~IsSpace(r) /\ ~IsNumRune(r)

UnitChars(s) == SelectSeq(s, IsUnitRune)

\* digits with at most one point and at least one digit
IsUnsignedLiteral(n) ==
  /\ \A i \in 1..Len(n) : IsDigit(n[i]) \/ n[i] = "."
  /\ Cardinality({i \in 1..Len(n) : n[i] = "."}) <= 1
  /\ \E i \in 1..Len(n) : IsDigit(n[i])

Mantissa(n) == DecValue(SelectSeq(n, IsDigit))

Scale(n) ==
  LET points == {i \in 1..Len(n) : n[i] = "."}
  IN  IF points = {} THEN <<1>>
      ELSE Pow(10, Len(n) - (CHOOSE i \in points : TRUE))

\* a literal of a value >= 0: unsigned, or a signed zero
IsNonNegLiteral(n) ==
  \/ IsUnsignedLiteral(n)
  \/ n # <<>> /\ n[1] = "-" /\ IsUnsignedLiteral(Tail(n)) /\ Mantissa(n) = <<>>

\* a literal of a value < 0
IsNegLiteral(n) ==
  n # <<>> /\ n[1] = "-" /\ IsUnsignedLiteral(Tail(n)) /\ Mantissa(n) # <<>>

\* the prefixes of the unit names, in lower case: the letter of the short
\* names, and the long decimal and binary prefixes
UnitLetters == <<"k", "m", "g", "t", "p", "e", "z", "y", "r", "q">>

DecimalPrefixes ==
  <<<<"k", "i", "l", "o">>,
    <<"m", "e", "g", "a">>,
    <<"g", "i", "g", "a">>,
    <<"t", "e", "r", "a">>,
    <<"p", "e", "t", "a">>,
    <<"e", "x", "a">>,
    <<"z", "e", "t", "t", "a">>,
    <<"y", "o", "t", "t", "a">>,
    <<"r", "o", "n", "n", "a">>,
    <<"q", "u", "e", "t", "t", "a">>>>

BinaryPrefixes ==
  <<<<"k", "i", "b", "i">>,
    <<"m", "e", "b", "i">>,
    <<"g", "i", "b", "i">>,
    <<"t", "e", "b", "i">>,
    <<"p", "e", "b", "i">>,
    <<"e", "x", "b", "i">>,
    <<"z", "e", "b", "i">>,
    <<"y", "o", "b", "i">>,
    <<"r", "o", "n", "n", "i">>,
    <<"q", "u", "e", "t", "t", "i">>>>

\* the names of the units, in lower case, with the magnitudes 1000^i and 1024^i
NameMagnitudes ==
  {<< <<"b">>, <<1>> >>, << <<"b", "y", "t", "e">>, <<1>> >>,
   << <<"b", "y", "t", "e", "s">>, <<1>> >>}
  \cup UNION {{<< <<UnitLetters[i], "b">>, Pow(1000, i)>>,
               <<DecimalPrefixes[i] \o <<"b", "y", "t", "e">>, Pow(1000, i)>>,
               <<DecimalPrefixes[i] \o <<"b", "y", "t", "e", "s">>, Pow(1000, i)>>,
               << <<UnitLetters[i], "i", "b">>, Pow(1024, i)>>,
               <<BinaryPrefixes[i] \o <<"b", "y", "t", "e">>, Pow(1024, i)>>,
               <<BinaryPrefixes[i] \o <<"b", "y", "t", "e", "s">>, Pow(1024, i)>>} :
              i \in 1..Len(UnitLetters)}

IsRecognised(unit) == \E p \in NameMagnitudes : p[1] = ToLower(unit)

Magnitude(unit) == (CHOOSE p \in NameMagnitudes : p[1] = ToLower(unit))[2]

\* the product numeral * magnitude is Product(s) / Scale(NumChars(s))
Product(s) == MulN(Magnitude(UnitChars(s)), Mantissa(NumChars(s)))

\* r = floor(p / d)
IsFloorOf(r, p, d) ==
  CmpN(MulN(d, r), p) <= 0 /\ CmpN(p, MulN(d, AddN(r, <<1>>))) < 0

\* floor(p / d) < 2^128
Below128Bits(p, d) == CmpN(p, MulN(d, Two128)) < 0

IsWord(w) == BitLen(w) <= 64

MaxWord == SubN(Two64, <<1>>)

ParsedNonNeg ==
  op = "Parse" /\ IsNonNegLiteral(NumChars(input)) /\ IsRecognised(UnitChars(input))

\* C1: for a valid non-negative literal q and a recognised unit U with
\* floor(q * magnitude(U)) < 2^128, Parse succeeds and returns exactly that
\* floor as a word pair, Hi * 2^64 + Lo: the fraction of a byte is discarded
C1_ParseReturnsFloor ==
  (ParsedNonNeg /\ Below128Bits(Product(input), Scale(NumChars(input))))
    => /\ perr = "nil"
       /\ IsWord(pval.Lo) /\ IsWord(pval.Hi)
       /\ IsFloorOf(AddN(MulN(pval.Hi, Two64), pval.Lo),
                    Product(input), Scale(NumChars(input)))

\* a fraction of a byte was discarded from a non-zero result
C1_Witness ==
  /\ ParsedNonNeg /\ perr = "nil" /\ pval # None
  /\ DivMod(Product(input), Scale(NumChars(input))).r # <<>>

\* C2: for a valid non-negative literal and a recognised unit, Parse fails
\* with the overflow error exactly when the floor of the product is 2^128 or
\* more; a floor of 2^128 - 1 is returned as {Lo = 2^64 - 1, Hi = 2^64 - 1}
C2_OverflowFrom2To128 ==
  ParsedNonNeg
    => /\ (perr = "value overflows Uint128")
            <=> ~Below128Bits(Product(input), Scale(NumChars(input)))
       /\ IsFloorOf(SubN(Two128, <<1>>), Product(input), Scale(NumChars(input)))
            => perr = "nil" /\ pval = [Lo |-> MaxWord, Hi |-> MaxWord]

\* the largest value was parsed in a unit above the byte
C2_Witness ==
  /\ ParsedNonNeg /\ pval = [Lo |-> MaxWord, Hi |-> MaxWord]
  /\ Magnitude(UnitChars(input)) # <<1>>

\* C7: a literal of a value below zero with a recognised unit fails with the
\* negative-value error and returns no value
C7_NegativeRejected ==
  (op = "Parse" /\ IsNegLiteral(NumChars(input)) /\ IsRecognised(UnitChars(input)))
    => perr = "negative value" /\ pval = None

C7_Witness ==
  /\ op = "Parse" /\ IsNegLiteral(NumChars(input))
  /\ IsRecognised(UnitChars(input)) /\ perr = "negative value"
  /\ Magnitude(UnitChars(input)) # <<1>>

\* C8: a variant of an accepted input (whitespace inserted or removed, the
\* case of a letter changed) is accepted with the same value
C8_VariantsParseAlike ==
  (op = "ParseVariant" /\ prev.err = "nil")
    => perr = "nil" /\ pval = prev.val

\* a variant that differs in the case of a letter was accepted
C8_Witness ==
  /\ op = "ParseVariant" /\ prev.err = "nil" /\ perr = "nil" /\ pval # None
  /\ Len(input) = Len(prev.input) /\ input # prev.input

Input1000QB == <<"1", "0", "0", "0", " ", "Q", "B">>

\* C9 as stated: Parse("1000 QB") fails with the overflow error
C9_Stated1000QBOverflows ==
  (op = "Parse" /\ input = Input1000QB) => perr = "value overflows Uint128"

\* C9, amended: Parse("1000 QB") returns 10^33, which is below 2^128; in QB
\* the first whole numeral that overflows is 340282367
C9_1000QBFits ==
  op = "Parse"
    => /\ input = Input1000QB => perr = "nil" /\ pval = FromBig(Pow(10, 33))
       /\ input = <<"3", "4", "0", "2", "8", "2", "3", "6", "6", " ", "Q", "B">>
            => perr = "nil"
       /\ input = <<"3", "4", "0", "2", "8", "2", "3", "6", "7", " ", "Q", "B">>
            => perr = "value overflows Uint128"

C9_Witness == op = "Parse" /\ input = Input1000QB /\ perr = "nil"

(***************************************************************************)
(* What a call of Format was asked, read off the value and the option      *)
(* list without the formatter: the ladder is 1000^i or 1024^i, i = 0..10.  *)
(***************************************************************************)
Ranks == 1..Len(UnitLetters)

\* the magnitudes of the 21 registered units
RegisteredMagnitudes ==
  {<<1>>} \cup {Pow(1000, i) : i \in Ranks} \cup {Pow(1024, i) : i \in Ranks}

DecimalMagnitudes == {<<1>>} \cup {Pow(1000, i) : i \in Ranks}

LadderBase(decimal) == IF decimal THEN 1000 ELSE 1024

\* the rank of the largest unit of the ladder that is not above v; 0 is the byte
RankIn(v, decimal) ==
  Cardinality({i \in Ranks : CmpN(Pow(LadderBase(decimal), i), v) <= 0})

LadderMagnitude(i, decimal) == Pow(LadderBase(decimal), i)

Capitalised(w) == <<ToUpperRune(w[1])>> \o Tail(w)

\* the registered name of the unit of rank i of a family
RegisteredName(i, decimal, long) ==
  IF long
  THEN (IF i = 0 THEN <<"B", "y", "t", "e">>
        ELSE Capitalised(IF decimal THEN DecimalPrefixes[i] ELSE BinaryPrefixes[i])
               \o <<"b", "y", "t", "e">>)
  ELSE (IF i = 0 THEN <<"B">>
        ELSE <<ToUpperRune(UnitLetters[i])>>
               \o (IF decimal THEN <<"B">> ELSE <<"i", "B">>))

\* the positions of the options of a name in a list
OptionsNamed(opts, name) == {i \in 1..Len(opts) : opts[i].name = name}

LastOf(idx) == CHOOSE i \in idx : \A j \in idx : j <= i

\* the flag of the last option of a name, or the default
LastFlag(opts, name, default) ==
  IF OptionsNamed(opts, name) = {} THEN default
  ELSE opts[LastOf(OptionsNamed(opts, name))].flag

AsksLong(opts) == LastFlag(opts, "WithLongUnits", FALSE)

AsksDecimal(opts) == LastFlag(opts, "WithDecimalUnits", TRUE)

HasForcedUnit(opts) == OptionsNamed(opts, "WithForcedUnit") # {}

\* the text after the first space of a rendered string
UnitPart(str) ==
  LET spaces == {i \in 1..Len(str) : str[i] = " "}
  IN  IF spaces = {} THEN <<>>
      ELSE SubSeq(str, (CHOOSE i \in spaces : \A j \in spaces : i <= j) + 1,
                  Len(str))

EndsInS(str) == str # <<>> /\ str[Len(str)] = "s"

\* the name, or with long names the name and an "s"
NameForms(name, long) == IF long THEN {name, Append(name, "s")} ELSE {name}

Formatted == op # "none" /\ ferr = "nil"

\* the option list is WithForcedUnit(U) alone for a unit U of the decimal
\* family, and the value is a multiple of U
ForcedDecimalMultiple ==
  /\ Len(fopts) = 1 /\ fopts[1].name = "WithForcedUnit"
  /\ ToBig(fopts[1].unit) \in DecimalMagnitudes
  /\ DivMod(ToBig(fval), ToBig(fopts[1].unit)).r = <<>>

\* C3: for a unit U of the decimal family and a multiple n * U of at most
\* 2^128 - 1, the string that Format renders under WithForcedUnit(U) and the
\* default template parses back to exactly n * U
C3_RoundTripExact ==
  (op = "ParseFormatted" /\ ForcedDecimalMultiple)
    => perr = "nil" /\ pval = fval

\* C4: without a forced unit Format renders the name of the largest unit of
\* the configured ladder whose magnitude is not above the value: one byte
\* below a unit never selects it, the magnitude itself does, and a value
\* below every unit, zero included, selects the byte
C4_LargestUnitNotAbove ==
  (Formatted /\ ~HasForcedUnit(fopts))
    => UnitPart(fstr)
         \in NameForms(RegisteredName(RankIn(ToBig(fval), AsksDecimal(fopts)),
                                      AsksDecimal(fopts), AsksLong(fopts)),
                       AsksLong(fopts))

\* a value one byte below a unit of rank 2 or more was rendered in the unit
\* one rank lower
C4_Witness ==
  /\ Formatted /\ ~HasForcedUnit(fopts)
  /\ RankIn(ToBig(fval), AsksDecimal(fopts)) >= 1
  /\ AddN(ToBig(fval), <<1>>)
       = LadderMagnitude(RankIn(ToBig(fval), AsksDecimal(fopts)) + 1,
                         AsksDecimal(fopts))
  /\ UnitPart(fstr) # <<>>

\* the option list holds exactly one WithForcedUnit, of a registered unit
ForcesOneRegistered ==
  /\ Cardinality(OptionsNamed(fopts, "WithForcedUnit")) = 1
  /\ ToBig(fopts[LastOf(OptionsNamed(fopts, "WithForcedUnit"))].unit)
       \in RegisteredMagnitudes

ForcedMagnitude ==
  ToBig(fopts[LastOf(OptionsNamed(fopts, "WithForcedUnit"))].unit)

\* the registered name of the unit of magnitude m, in its own family
OwnName(m, long) ==
  IF m \in DecimalMagnitudes
  THEN RegisteredName(RankIn(m, TRUE), TRUE, long)
  ELSE RegisteredName(RankIn(m, FALSE), FALSE, long)

\* C5: under WithForcedUnit(U) for a registered unit U, Format renders the
\* registered name of U, for every list of other options in every order
C5_ForcedUnitOwnName ==
  (Formatted /\ ForcesOneRegistered)
    => UnitPart(fstr)
         \in NameForms(OwnName(ForcedMagnitude, AsksLong(fopts)), AsksLong(fopts))

\* the list holds WithFormatString("") or WithForcedUnit(x) for an x that is
\* none of the registered magnitudes
HasOffendingOption(opts) ==
  \E i \in 1..Len(opts) :
    \/ opts[i].name = "WithFormatString" /\ opts[i].formatStr = <<>>
    \/ opts[i].name = "WithForcedUnit"
         /\ ToBig(opts[i].unit) \notin RegisteredMagnitudes

\* C6: Format returns an error, and the empty string, exactly when the list
\* holds WithFormatString("") or WithForcedUnit of an unregistered
\* magnitude, also when a later option would overwrite the setting; for
\* every other list it returns no error, and a non-empty string under the
\* default template
C6_ErrorIffOffendingOption ==
  op # "none"
    => /\ ferr # "nil" <=> HasOffendingOption(fopts)
       /\ ferr # "nil" => fstr = <<>>
       /\ (ferr = "nil" /\ OptionsNamed(fopts, "WithFormatString") = {})
            => fstr # <<>>

\* the error of an offending option that a later option of the same name
\* would have overwritten
C6_Witness ==
  /\ op = "Format" /\ ferr # "nil" /\ fstr = <<>>
  /\ Len(fopts) = 2 /\ fopts[1].name = fopts[2].name
  /\ HasOffendingOption(<<fopts[1]>>) /\ ~HasOffendingOption(<<fopts[2]>>)

\* C10: with long names the rendered unit name is singular exactly when the
\* value is the magnitude of the selected unit, and ends in "s" for every
\* other value; with short names it never ends in "s"
C10_SingularOnlyForOneUnit ==
  (Formatted /\ ~HasForcedUnit(fopts))
    => IF AsksLong(fopts)
       THEN ~EndsInS(fstr)
              <=> ToBig(fval) = LadderMagnitude(RankIn(ToBig(fval), AsksDecimal(fopts)),
                                                AsksDecimal(fopts))
       ELSE ~EndsInS(fstr)

\* the text before the first space of a rendered string
NumberPart(str) ==
  LET spaces == {i \in 1..Len(str) : str[i] = " "}
  IN  IF spaces = {} THEN str
      ELSE SubSeq(str, 1, (CHOOSE i \in spaces : \A j \in spaces : i <= j) - 1)

\* the ranks of the binary ladder whose name the string renders
RenderedBinaryRanks(str, long) ==
  {i \in {0} \cup Ranks :
     UnitPart(str) \in NameForms(RegisteredName(i, FALSE, long), long)}

\* the second string is one step of the binary ladder above the first, with
\* the same number
OneStepAbove(first, second, long) ==
  /\ RenderedBinaryRanks(first, long) # {}
  /\ RenderedBinaryRanks(second, long)
       = {i + 1 : i \in RenderedBinaryRanks(first, long)}
  /\ NumberPart(second) = NumberPart(first)

ScaledFrom(least) ==
  op = "FormatScaled" /\ CmpN(ToBig(prev.val), least) >= 0

NamesUnit(text) == IsRecognised(TrimSpace(text))

\* C12: unit resolution succeeds exactly when the text, trimmed and in lower
\* case, is a recognised name, and then returns that unit's magnitude, the
\* same for singular and plural; every other text is rejected as an unknown
\* unit
C12_ResolvesExactlyTheNames ==
  op = "Resolve"
    => IF NamesUnit(input)
       THEN perr = "nil" /\ ToBig(pval) = Magnitude(TrimSpace(input))
       ELSE perr = "unknown unit" /\ pval = None

\* a long plural name in upper case with whitespace around it was resolved
C12_Witness ==
  /\ op = "Resolve" /\ perr = "nil" /\ Len(input) > 6
  /\ input # TrimSpace(input) /\ TrimSpace(input) # ToLower(TrimSpace(input))
  /\ input[Len(input) - 1] \in {"s", "S"}
  /\ ToBig(pval) = Magnitude(TrimSpace(input))

\* C13: IsValidUnit(u) is true exactly when the unit resolution of u
\* succeeds: the list and the switch recognise the same names
C13_ValidIffResolves ==
  op = "IsValidUnit" => (valid <=> perr = "nil")

\* a text in another case than the list's, with whitespace around it, is
\* valid and resolved
C13_Witness ==
  /\ op = "IsValidUnit" /\ valid /\ perr = "nil"
  /\ input # TrimSpace(input) /\ TrimSpace(input) # ToLower(TrimSpace(input))

\* the errors of the kind MalformedNumber
IsMalformedNumber(e) ==
  e \in {"invalid number", "invalid number: empty numeric part",
         "error parsing number and unit: invalid number: multiple decimal points"}

\* C14: a non-empty input whose numeric buffer is empty (no digit, no '.', no
\* '-') makes Parse fail with an invalid-number error, whether its unit text
\* is a recognised unit or not
C14_EmptyNumeralIsMalformed ==
  (op = "Parse" /\ TrimSpace(input) # <<>> /\ NumChars(input) = <<>>)
    => IsMalformedNumber(perr) /\ pval = None

\* the unit variables in the order of their ladders, the byte first
DecimalLadder == <<B, KB, MB, GB, TB, PB, EB, ZB, YB, RB, QB>>

BinaryLadder == <<KiB, MiB, GiB, TiB, PiB, EiB, ZiB, YiB, RiB, QiB>>

PowersOf1000 == [k \in 0..10 |-> Pow(1000, k)]

PowersOf1024 == [k \in 1..10 |-> Pow(1024, k)]

\* the exponents of the high words of ZiB, YiB, RiB, QiB
HighWordExponents == <<6, 16, 26, 36>>

HighWords == [j \in 1..4 |-> Pow(2, HighWordExponents[j])]

\* C15: every unit variable holds its exact magnitude as a pair of 64-bit
\* words: the k-th decimal unit is 1000^k and 1000 times the unit before it
\* without overflow, the k-th binary unit is 1024^k, ZiB, YiB, RiB, QiB have
\* Lo = 0 and Hi = 2^6, 2^16, 2^26, 2^36, and the 21 magnitudes are distinct
\* and below 2^128
C15_UnitsHoldExactMagnitudes ==
  /\ \A k \in 0..10 :
       /\ ToBig(DecimalLadder[k + 1]) = PowersOf1000[k]
       /\ IsWord(DecimalLadder[k + 1].Lo) /\ IsWord(DecimalLadder[k + 1].Hi)
  /\ \A k \in 1..10 :
       /\ MulSmall(ToBig(DecimalLadder[k]), 1000) = ToBig(DecimalLadder[k + 1])
       /\ CmpN(MulSmall(ToBig(DecimalLadder[k]), 1000), Two128) < 0
  /\ \A k \in 1..10 :
       /\ ToBig(BinaryLadder[k]) = PowersOf1024[k]
       /\ IsWord(BinaryLadder[k].Lo) /\ IsWord(BinaryLadder[k].Hi)
  /\ \A j \in 1..4 :
       BinaryLadder[6 + j] = [Lo |-> <<>>, Hi |-> HighWords[j]]
  /\ Cardinality({ToBig(DecimalLadder[k]) : k \in 1..11}
                   \cup {ToBig(BinaryLadder[k]) : k \in 1..10}) = 21
  /\ \A k \in 1..11 : CmpN(ToBig(DecimalLadder[k]), Two128) < 0
  /\ \A k \in 1..10 : CmpN(ToBig(BinaryLadder[k]), Two128) < 0

\* the lookup of a name returned a unit of two words: QB with a high word,
\* or ZiB with the low word zero
C15_Witness ==
  /\ op = "Resolve" /\ perr = "nil" /\ pval \in {QB, ZiB}
  /\ pval.Hi # <<>> /\ ToBig(pval) \in {PowersOf1000[10], PowersOf1024[7]}

\* the template a list asks for, "%.<d>f %s", and its number of decimals d
AsksTemplate(opts) ==
  IF OptionsNamed(opts, "WithFormatString") = {} THEN DefaultFormatStr
  ELSE opts[LastOf(OptionsNamed(opts, "WithFormatString"))].formatStr

AsksDecimals(opts) == DigitVal(AsksTemplate(opts)[3])

\* the magnitude of the unit a list and a value select: the last forced
\* unit, or the largest unit of the ladder not above the value
SelectedMagnitude(v, opts) ==
  IF HasForcedUnit(opts)
  THEN ToBig(opts[LastOf(OptionsNamed(opts, "WithForcedUnit"))].unit)
  ELSE LadderMagnitude(RankIn(v, AsksDecimal(opts)), AsksDecimal(opts))

AbsDiff(a, b) == IF CmpN(a, b) >= 0 THEN SubN(a, b) ELSE SubN(b, a)

\* the digits of the rendered number without the point: the number times 10^d
RenderedTimesScale(str) == DecValue(SelectSeq(NumberPart(str), IsDigit))

\* n / 10^d is v / u rounded to d decimals: it is at most half of 10^-d away
IsRoundedQuotient(n, d, v, u) ==
  CmpN(MulSmall(AbsDiff(MulN(n, u), MulN(Pow(10, d), v)), 2), u) <= 0

\* C16: the number Format renders is the exact quotient of the value and the
\* magnitude of the selected unit, rounded to the decimals of the template,
\* for every value and every unit
C16_RendersRoundedExactQuotient ==
  Formatted
    => IsRoundedQuotient(RenderedTimesScale(fstr), AsksDecimals(fopts),
                         ToBig(fval), SelectedMagnitude(ToBig(fval), fopts))

\* the low word of the value followed by " B"
LowWordAndB(b) == PadLeft(DecDigits(b.Lo), 1) \o <<" ", "B">>

\* C17: String returns exactly the string that Format without options
\* returns, which is no error, so the rendering of the low word followed by
\* " B" is never returned
C17_StringIsDefaultFormat ==
  op = "String"
    => /\ prev.err = "nil" /\ prev.val = fval
       /\ fstr = prev.input
       /\ fstr # LowWordAndB(fval)

\* a value of two words was rendered by String
C17_Witness ==
  /\ op = "String" /\ fval.Hi # <<>> /\ fstr = prev.input /\ fstr # <<>>

\* C18: no call of Parse, Format, String, IsValidUnit, Set or UnmarshalText,
\* whatever its arguments and its result, changes a unit variable, a name
\* table or the list of the valid units
C18_RegistryNeverChanges == [][UNCHANGED registry]_vars

\* the characters of the numeral all come before the characters of the unit
NumeralBeforeUnit(s) ==
  \A i \in 1..Len(s), j \in 1..Len(s) :
    (IsNumRune(s[i]) /\ IsUnitRune(s[j])) => i < j

\* C19: every string that Parse accepts is whitespace, the complete numeral,
\* whitespace, the complete unit text, in this order; a string with unit
\* characters before or between the characters of the numeral is rejected
C19_AcceptedInputsMatchGrammar ==
  (op = "Parse" /\ perr = "nil") => NumeralBeforeUnit(input)

\* the lookup returned what getMultiplierForUnitString returned: the same
\* magnitude, or an unknown-unit error as well
SameAsResolve(r) ==
  /\ r.input = input
  /\ r.err = perr /\ r.val = pval
  /\ r.err \in {"nil", "unknown unit"}

\* C20: for every unit string the flat switch, the map version and the
\* nested-switch version return the same magnitude or all return an
\* unknown-unit error, and none of them aborts
C20_LookupsAgree ==
  op = "NestedVersion" => SameAsResolve(byMap) /\ SameAsResolve(byNested)

\* C21: Parse validates the numeral before it resolves the unit: for an
\* input whose unit text is not recognised, the error is the numeral's
\* (invalid number or negative value) when the numeral is empty, not a
\* decimal literal or negative, and unknown unit only when the numeral is a
\* valid non-negative literal
C21_NumeralErrorBeforeUnitError ==
  (op = "Parse" /\ TrimSpace(input) # <<>> /\ ~IsRecognised(UnitChars(input)))
    => IF IsNonNegLiteral(NumChars(input)) THEN perr = "unknown unit"
       ELSE IsMalformedNumber(perr) \/ perr = "negative value"

\* the number of '.' in a string
Points(s) == Cardinality({i \in 1..Len(s) : s[i] = "."})

MultiplePoints ==
  "error parsing number and unit: invalid number: multiple decimal points"

\* C22: the scan fails with the multiple-decimal-points error exactly when the
\* trimmed input holds two or more '.', wherever they stand, and Parse
\* reports this before any check of the numeral or the unit; when the scan
\* succeeds the numeric buffer holds at most one '.'
C22_SecondPointFailsTheScan ==
  (op = "Parse" /\ TrimSpace(input) # <<>>)
    => /\ perr = MultiplePoints <=> Points(TrimSpace(input)) >= 2
       /\ getNumAndUnitRunes(TrimSpace(input)).err # "nil"
            <=> Points(TrimSpace(input)) >= 2
       /\ getNumAndUnitRunes(TrimSpace(input)).err = "nil"
            => Points(getNumAndUnitRunes(TrimSpace(input)).numRunes) <= 1

\* an input with a '.' among its unit letters, a second '.' and no recognised
\* unit failed with the error of the scan
C22_Witness ==
  /\ op = "Parse" /\ perr = MultiplePoints
  /\ ~IsRecognised(UnitChars(input))
  /\ \E i \in 2..Len(input) : input[i] = "." /\ IsUnitRune(input[i - 1])

\* C23: Parse fully succeeds or fully fails: every call that returns an
\* error returns the zero Bytes {0, 0} with it
C23_FailureReturnsZero ==
  (op = "Parse" /\ perr # "nil") => pval = None

\* a numeral and a recognised unit whose product is beyond 128 bits failed,
\* and the value returned is zero
C23_Witness ==
  /\ op = "Parse" /\ perr = "value overflows Uint128" /\ pval = None
  /\ IsNonNegLiteral(NumChars(input)) /\ IsRecognised(UnitChars(input))

\* C24: Mul64Error returns the exact product a * k when it is at most
\* 2^128 - 1, and an overflow error with no value exactly when the product
\* is above 2^128 - 1
C24_CheckedMultiplyIsExact ==
  op = "Mul64Error"
    => IF CmpN(MulN(ToBig(mulCall.a), mulCall.k), Two128) < 0
       THEN /\ mulCall.err = "nil"
            /\ ToBig(mulCall.val) = MulN(ToBig(mulCall.a), mulCall.k)
            /\ IsWord(mulCall.val.Lo) /\ IsWord(mulCall.val.Hi)
       ELSE mulCall.err = "overflow" /\ mulCall.val = None

\* a value of two words was multiplied with the largest scalar it can take,
\* a scalar above 1: the product fits and the next multiple does not
C24_Witness ==
  /\ op = "Mul64Error" /\ mulCall.err = "nil"
  /\ mulCall.a.Hi # <<>> /\ CmpN(mulCall.k, <<1>>) > 0
  /\ CmpN(AddN(ToBig(mulCall.val), ToBig(mulCall.a)), Two128) >= 0
  /\ \E k \in Scalars(fval) : Mul64Error(fval, k).err = "overflow"

\* C25: in the earlier Parse, for every unit and every numeral that passes
\* the checked multiply, the sum of the product and the bytes of the fraction
\* is at most 2^128 - 1: the unchecked Add never drops a carry out of bit 127
C25_AddNeverOverflows ==
  (op = "ParseEarlier" /\ addCall.made)
    => /\ CmpN(AddN(ToBig(addCall.a), ToBig(addCall.b)), Two128) < 0
       /\ ToBig(addCall.val) = AddN(ToBig(addCall.a), ToBig(addCall.b))

\* a product of two words, from a unit of two words, and a fraction of more
\* than 2^32 bytes were added
C25_Witness ==
  /\ op = "ParseEarlier" /\ addCall.made /\ perr = "nil"
  /\ mulCall.err = "nil" /\ mulCall.a.Hi # <<>> /\ addCall.a = mulCall.val
  /\ addCall.a.Hi # <<>> /\ BitLen(addCall.b.Lo) > 32

\* the step is a call of Set or of UnmarshalText on the client's variable
IsSetStep == op' \in {"Set", "UnmarshalText"}

\* the variable takes the value that Parse gives for the text when Parse
\* accepts it, and keeps its value when Parse rejects it; the call returns
\* the error of Parse
StoresWhatParseAccepts(r) ==
  /\ perr' = r.err
  /\ fval' = IF r.err = "nil" THEN r.val ELSE fval

\* C26: every call of Set or UnmarshalText that Parse accepts stores the
\* parsed value in the variable, and every rejected call returns the error of
\* Parse and leaves the variable as it was, so that after any sequence of
\* calls the variable holds the value of the last accepted call, or its
\* initial value; UnmarshalText behaves as Set
C26_SetStoresOnlyAcceptedValues ==
  [][IsSetStep => StoresWhatParseAccepts(Parse(input))]_vars

\* UnmarshalText rejected a text after an earlier call had stored 5 MB in a
\* variable that was 0 or 2048 at first: the variable still holds 5 MB
C26_Witness ==
  /\ op = "UnmarshalText" /\ perr = "unknown unit" /\ input = <<"a", "b", "c">>
  /\ fval = FromBig(FromInt(5000000))

\* C27: the divisor of Format is never zero: whenever Format comes to divide,
\* the magnitude of the unit it selected is one of the 21 registered
\* magnitudes, and at least 1
C27_DivisorIsRegisteredUnit ==
  op = "Format"
    => /\ divisor.made <=> ferr = "nil"
       /\ divisor.made
            => /\ ToBig(divisor.unit) \in RegisteredMagnitudes
               /\ CmpN(ToBig(divisor.unit), <<1>>) >= 0

\* the value 0 was formatted with automatic selection: no unit of the slice
\* is at most 0, and the divisor is the byte
C27_Witness ==
  /\ op = "Format" /\ fval = None /\ ~HasForcedUnit(fopts)
  /\ divisor.made /\ ToBig(divisor.unit) = <<1>>

\* the Float x compared with the integer n: -1, 0 or 1
FloatCmpInt(x, n) ==
  IF x.exp >= 0 THEN CmpN(Shl(x.mant, x.exp), n)
  ELSE CmpN(x.mant, Shl(n, 0 - x.exp))

\* the magnitude of the top unit of a family
TopMagnitude(decimal) == Pow(LadderBase(decimal), Len(UnitLetters))

AutomaticQuotient ==
  op = "Format" /\ divisor.made /\ ~HasForcedUnit(fopts) /\ fval # None

\* C28: with automatic unit selection and a value v >= 1, the quotient of v
\* by the selected unit is at least 1, it is below 1000 (decimal family) or
\* 1024 (binary family) whenever v is below 1000 * QB or 1024 * QiB, and a
\* quotient of 1000 or 1024 or more occurs only at the top unit of the ladder
C28_QuotientWithinOneStep ==
  AutomaticQuotient
    => /\ FloatCmpInt(divisor.value, <<1>>) >= 0
       /\ CmpN(ToBig(fval),
               MulSmall(TopMagnitude(AsksDecimal(fopts)),
                        LadderBase(AsksDecimal(fopts)))) < 0
            => FloatCmpInt(divisor.value,
                           FromInt(LadderBase(AsksDecimal(fopts)))) < 0
       /\ FloatCmpInt(divisor.value, FromInt(LadderBase(AsksDecimal(fopts)))) >= 0
            => ToBig(divisor.unit) = TopMagnitude(AsksDecimal(fopts))

\* the text input was looked up and parsed as the unit of 1, and it holds no
\* digit, no '.' and no '-'
ParsedAsUnit == op = "ParseWithUnit" /\ NumChars(input) = <<>>

\* whitespace stands between two other characters of s
HasInnerSpace(s) ==
  \E i \in 1..Len(TrimSpace(s)) : IsSpace(TrimSpace(s)[i])

\* C29 as stated: for every string u without digit, '.' and '-',
\* Parse("1" + u) succeeds exactly when IsValidUnit(u) is true
C29_ParseAcceptsIffValidUnit ==
  ParsedAsUnit => (perr = "nil" <=> valid)

\* C29 amended: for every string u without digit, '.' and '-', Parse("1" + u)
\* succeeds exactly when u without its whitespace names a unit; this is
\* IsValidUnit(u) when no whitespace stands inside u, and with whitespace
\* inside u IsValidUnit(u) is false whatever Parse says
C29_ParseAcceptsIffValidUnitWithoutSpaces ==
  ParsedAsUnit
    => /\ perr = "nil" <=> IsRecognised(UnitChars(input))
       /\ ~HasInnerSpace(input) => (perr = "nil" <=> valid)
       /\ HasInnerSpace(input) => ~valid

\* a unit name in upper case with whitespace around it is valid and parsed
C29_Witness ==
  /\ ParsedAsUnit /\ valid /\ perr = "nil"
  /\ input # TrimSpace(input) /\ TrimSpace(input) # ToLower(TrimSpace(input))
  /\ pval # One

\* the characters of s that are no whitespace
IsNoSpace(r) == ~IsSpace(r)

NonSpaceChars(s) == SelectSeq(s, IsNoSpace)

\* t holds characters of s in the order of s: t is s with some characters left out
RECURSIVE IsSubsequence(_, _)
IsSubsequence(t, s) ==
  IF t = <<>> THEN TRUE
  ELSE IF s = <<>> THEN FALSE
  ELSE IF Head(t) = Head(s) THEN IsSubsequence(Tail(t), Tail(s))
  ELSE IsSubsequence(t, Tail(s))

\* C30: when the scan succeeds, every character of the input that is no
\* whitespace is in exactly one of the two buffers: the numeric buffer holds
\* exactly the digits, '.' and '-' (a '-' at any position), the unit buffer
\* all the others, each in the order of the input, and neither holds
\* whitespace
C30_ScanPartitionsTheInput ==
  (op = "Parse" /\ scanned.err = "nil")
    => /\ Len(scanned.numRunes) + Len(scanned.unitRunes)
            = Len(NonSpaceChars(input))
       /\ \A i \in 1..Len(scanned.numRunes) : IsNumRune(scanned.numRunes[i])
       /\ \A i \in 1..Len(scanned.unitRunes) :
            ~IsNumRune(scanned.unitRunes[i]) /\ ~IsSpace(scanned.unitRunes[i])
       /\ IsSubsequence(scanned.numRunes, input)
       /\ IsSubsequence(scanned.unitRunes, input)
       /\ scanned.numRunes = NumChars(input)
       /\ scanned.unitRunes = UnitChars(input)

\* the scan of an input with a '-' after a unit letter, and whitespace
\* inside, put the '-' into the numeric buffer
C30_Witness ==
  /\ op = "Parse" /\ scanned.err = "nil"
  /\ \E i \in 2..Len(input) : input[i] = "-" /\ IsUnitRune(input[i - 1])
  /\ \E i \in 1..Len(scanned.numRunes) : scanned.numRunes[i] = "-"
  /\ Len(NonSpaceChars(input)) < Len(TrimSpace(input))
  /\ scanned.unitRunes # <<>>
=============================================================================
